---- MODULE Spec2Model ----
(***************************************************************************)
(* pigz: the parallel compression pipeline of pigz.c (read_thread,         *)
(* write_thread, compress_thread), its flag rendezvous, its work units and *)
(* the check combination functions; then the header and trailer writers,  *)
(* the serial path single_gzip, the fatal exit bail, and the decoder       *)
(* infchk with its output call-back outb and the header reader get_header. *)
(*                                                                         *)
(* An unsigned long that holds a check value is modelled as the set of the *)
(* positions of its one bits (bit 0 is the least significant), because a   *)
(* 32-bit value does not fit the integers of the model checker.            *)
(***************************************************************************)
EXTENDS Integers, Sequences, FiniteSets, TLC

(***************************************************************************)
(* Bounds of the model.                                                    *)
(***************************************************************************)
\* block sizes: the global size (pigz.c:324) is size, counted in bytes
size == 2
\* the largest number of blocks of an input
MaxBlocks == 4
\* the largest number of work units (procs) that is tried
MaxProcs == 3

\* byte values the input and uninitialized memory are drawn from
Bytes == {0, 255}

(***************************************************************************)
(* Program constants.                                                      *)
(***************************************************************************)
\* pigz.c:657 is 32768U; the model scales it so that size >= DICT can be
\* reached: the code uses DICT only as the length of the tail of the previous
\* input buffer that is handed to deflateSetDictionary
DICT == 1
IDLE == 0
COMP == 1
WRITE == 2
BASE == 65521
\* a null pointer to a buffer: an allocated buffer holds size >= 1 bytes
NULL == << >>
\* a byte of allocated memory that was never written
UNINIT == -1

(***************************************************************************)
(* 32-bit words as sets of bit positions.                                  *)
(***************************************************************************)
\* F(v), with v evaluated once, before F is applied to its value
Strict(v, F(_)) == CHOOSE r \in {F(x) : x \in {v}} : TRUE

\* the word with the value v, for 0 <= v < 2^16
Word(v) == {i \in 0..15 : (v \div 2^i) % 2 = 1}

\* the value of the low 16 bits of a word
Bit(w, i) == IF i \in w THEN 2^i ELSE 0
Value(w) == Strict(w, LAMBDA x :
                Bit(x, 0) + Bit(x, 1) + Bit(x, 2) + Bit(x, 3)
              + Bit(x, 4) + Bit(x, 5) + Bit(x, 6) + Bit(x, 7)
              + Bit(x, 8) + Bit(x, 9) + Bit(x, 10) + Bit(x, 11)
              + Bit(x, 12) + Bit(x, 13) + Bit(x, 14) + Bit(x, 15))

Xor(a, b) == (a \ b) \cup (b \ a)
Shr(a, k) == {i - k : i \in {j \in a : j >= k}}
Shl(a, k) == {i + k : i \in a}
LOW16 == 0..15
AllOnes == 0..31

(***************************************************************************)
(* zlib's crc32() and adler32(), which CHECK calls (pigz.c:338).           *)
(***************************************************************************)
\* 0xedb88320, the reflected CRC-32 polynomial (pigz.c:237)
POLY == {5, 8, 9, 15, 19, 20, 21, 23, 24, 26, 27, 29, 30, 31}

RECURSIVE crc_bits(_, _)
crc_bits(c, k) ==
    IF k = 0 THEN c
    ELSE Strict(c, LAMBDA x :
            crc_bits(IF 0 \in x THEN Xor(Shr(x, 1), POLY) ELSE Shr(x, 1), k - 1))

\* the table of crc32(): entry b is the effect of the eight bits of byte b
crc_table == [b \in 0..255 |-> crc_bits(Word(b), 8)]

RECURSIVE crc_update(_, _)
crc_update(c, buf) ==
    IF buf = << >> THEN c
    ELSE Strict(c, LAMBDA x :
            crc_update(Xor(crc_table[Value(Xor(x, Word(Head(buf))) \cap (0..7))],
                           Shr(x, 8)),
                       Tail(buf)))

\* crc32(crc, buf, len) over the len bytes buf
crc32(crc, buf) == Xor(crc_update(Xor(crc, AllOnes), buf), AllOnes)

RECURSIVE adler_update(_, _, _)
adler_update(s1, s2, buf) ==
    IF buf = << >> THEN <<s1, s2>>
    ELSE Strict((s1 + Head(buf)) % BASE, LAMBDA t1 :
            Strict((s2 + t1) % BASE, LAMBDA t2 : adler_update(t1, t2, Tail(buf))))

\* adler32(adler, buf, len) over the len bytes buf
adler32(adler, buf) ==
    Strict(adler_update(Value(adler \cap LOW16), Value(Shr(adler, 16) \cap LOW16), buf),
           LAMBDA s : Word(s[1]) \cup Shl(Word(s[2]), 16))

(***************************************************************************)
(* crc32_comb and adler32_comb (pigz.c:202-298).                           *)
(***************************************************************************)
\* gf2_matrix_times: the exclusive or of the rows mat[k] for the one bits k
\* of vec (row k of the C array is mat[k + 1] here), so a bit is set in the
\* sum when an odd number of the selected rows have it
gf2_matrix_times(mat, vec) ==
    {i \in 0..31 : Cardinality({k \in vec : i \in mat[k + 1]}) % 2 = 1}

gf2_matrix_square(mat) == [k \in 1..32 |-> gf2_matrix_times(mat, mat[k])]

\* the operator for one zero bit: odd[0] is the polynomial, odd[n] is 1 << (n-1)
odd_one == [k \in 1..32 |-> IF k = 1 THEN POLY ELSE {k - 2}]
\* the operator for four zero bits, with which the loop of crc32_comb starts
odd_four == gf2_matrix_square(gf2_matrix_square(odd_one))

RECURSIVE zero_ops(_, _)
zero_ops(op, k) == IF k = 0 THEN << >>
                   ELSE LET sq == gf2_matrix_square(op) IN <<sq>> \o zero_ops(sq, k - 1)

\* the matrices the loop of crc32_comb computes, in order: the j-th squaring
\* gives the operator for 2^(j-1) zero bytes.  They do not depend on the
\* arguments, so they are computed once; size squarings cover every len2 <= size
ZeroOps == zero_ops(odd_four, size)

RECURSIVE crc32_comb_loop(_, _, _)
crc32_comb_loop(j, crc1, len2) ==
    Strict(IF len2 % 2 = 1 THEN gf2_matrix_times(ZeroOps[j], crc1) ELSE crc1,
           LAMBDA c : IF len2 \div 2 = 0 THEN c
                      ELSE crc32_comb_loop(j + 1, c, len2 \div 2))

\* crc32_comb without the zeros operator: the two checks exclusive-ored
crc32_comb_NoZeros(crc1, crc2, len2) == Xor(crc1, crc2)

crc32_comb(crc1, crc2, len2) ==
    IF len2 = 0 THEN crc1 ELSE Xor(crc32_comb_loop(1, crc1, len2), crc2)

\* the two conditional subtractions of lines 293-294 and of lines 295-296
adler_reduce1(sum1) ==
    Strict(IF sum1 > BASE THEN sum1 - BASE ELSE sum1,
           LAMBDA s : IF s > BASE THEN s - BASE ELSE s)
adler_reduce2(sum2) ==
    Strict(IF sum2 > 2 * BASE THEN sum2 - 2 * BASE ELSE sum2,
           LAMBDA s : IF s > BASE THEN s - BASE ELSE s)

adler32_comb(adler1, adler2, len2) ==
    LET rem  == len2 % BASE
        lo1  == Value(adler1 \cap LOW16)
        sum1 == lo1 + Value(adler2 \cap LOW16) + BASE - 1
        sum2 == ((rem * lo1) % BASE)
                + Value(Shr(adler1, 16) \cap LOW16)
                + Value(Shr(adler2, 16) \cap LOW16) + BASE - rem
    IN Strict(adler_reduce1(sum1), LAMBDA r1 :
          Strict(adler_reduce2(sum2), LAMBDA r2 : Word(r1) \cup Shl(Word(r2), 16)))

\* CHECK and COMB (pigz.c:338-339); CHECK(0L, Z_NULL, 0) is the seed
CHECK(f, a, b) == IF f = 1 THEN adler32(a, b) ELSE crc32(a, b)
CHECK0(f) == IF f = 1 THEN {0} ELSE {}
COMB(f, a, b, c) == IF f = 1 THEN adler32_comb(a, b, c) ELSE crc32_comb(a, b, c)

(***************************************************************************)
(* State.                                                                  *)
(***************************************************************************)
VARIABLES
    procs,      \* global procs: number of work units
    dict,       \* global dict: set the dictionary of each block
    form,       \* global form: 0 gzip, 1 zlib, 2 zip
    input,      \* the bytes of the file behind ind
    inpos,      \* the number of bytes already read from ind
    jobs,       \* global jobs: NULL or the work units 0..procs-1
    thr,        \* the compress threads created so far, in creation order
    rpc, n, got,                            \* read_thread: position and locals
    wpc, wn, wlen, head, ulen, clen, check, \* write_thread: position and locals
    sink        \* what has been written to outd, in order

\* the state of the parts of the program outside the compression pipeline
VARIABLES
    parts,      \* the regions whose checks have been combined, in order
    comb,       \* the check value combined from them
    level,      \* global level: the compression level
    trail,      \* the arguments of a call of put_trailer
    wire,       \* the bytes put_header and put_trailer have handed to writen
    ppc,        \* which of put_header and put_trailer have been called
    name,       \* global name: << >> for NULL, else <<the bytes of the name>>
    mtime,      \* global mtime
    spc,        \* single_gzip: position (its locals are got, head, ulen, clen, check)
    first,      \* what an earlier run of the program on the same input wrote
    MAX,        \* MAX of pigz.c:661, in the scale of size
    out,        \* global out: the name of the output file, or NullName
    verbosity,  \* global verbosity
    files,      \* the names that exist in the directory
    stderr,     \* the diagnostics written to standard error
    status      \* << >> while the process runs, then <<its exit status>>

\* the state of decompression: infchk reads the compressed input through
\* input and inpos, writes to sink, and uses form, procs, check and clen
VARIABLES
    decode,     \* global decode: 1 to decompress, 2 to test
    in_eof,     \* global in_eof: the end of the input has been hit
    out_tot,    \* global out_tot
    out_check,  \* global out_check
    zip,        \* globals zip_crc, zip_clen, zip_ulen
    ipc,        \* infchk: position
    ret,        \* infchk: local ret
    ilen,       \* infchk: local len
    strm,       \* inflateBack: where its deflate data is and how much is out
    outbuf,     \* global outbuf: the window inflateBack decompresses into
    opc,        \* outb: position
    olen,       \* outb: parameter len
    work,       \* outb: local work (work.buf is outbuf whenever it is set)
    cthr        \* the check threads created so far, in creation order

\* the state of main and option: the options are the globals procs, level and
\* decode above and the block size, which the pipeline above takes scaled
\* down (size) and main takes as it is
VARIABLES
    get,        \* option: static get, the parameters that are awaited
    blocksize,  \* global size, in bytes
    sufx,       \* global sufx
    pool,       \* global jobs: NULL, or for each unit what was allocated for it
    freed,      \* jobs_free: <<the units its loop went through, the units freed>>
    argv,       \* main: argv[1] to argv[n], the arguments looked at so far
    done,       \* main: local done
    heap        \* what malloc, deflateInit2, free and deflateEnd have done

VARIABLES
    prc,        \* where process is, or how the program ended
    path,       \* process: its argument, NULL for stdin
    st,         \* process: what lstat and the tests of the name find
    keep,       \* global keep
    pipeout,    \* global pipeout
    list,       \* global list
    ind,        \* global ind, -1 while nothing is open
    outd,       \* global outd, -1 while nothing is open
    outp,       \* what the pointer out points to
    fin,        \* the stream is complete: trailer written, or input verified
    closed      \* close(outd) has returned 0

dvars == <<decode, in_eof, out_tot, out_check, zip, ipc, ret, ilen, strm,
           outbuf, opc, olen, work, cthr>>

cvars == <<parts, comb>>
hvars == <<level, trail, wire, ppc, name, mtime>>
svars == <<spc, first, MAX>>
evars == <<out, verbosity, files, stderr, status>>
ovars == <<get, blocksize, sufx, pool, freed, argv, done, heap>>
pvars == <<prc, path, st, keep, pipeout, list, ind, outd, outp, fin, closed>>
elsewhere == <<cvars, hvars, svars, evars, dvars, ovars, pvars>>

vars == <<procs, dict, form, input, inpos, jobs, thr, rpc, n, got,
          wpc, wn, wlen, head, ulen, clen, check, sink, elsewhere>>

config == <<procs, dict, form, input>>
rvars == <<rpc, n, got, inpos>>
wvars == <<wpc, wn, wlen, head, ulen, clen, check, sink>>

NEXT(k) == IF k = procs - 1 THEN 0 ELSE k + 1
PREV(k) == IF k = 0 THEN procs - 1 ELSE k - 1

\* the inputs tried: up to MaxBlocks - 1 full blocks followed by a last block
\* of a length in LastLens, with a byte 255 at every third position and 0
\* elsewhere, so that successive blocks differ
LastLens == {0, 1}
Inputs == {[i \in 1..(b * size + l) |-> IF i % 3 = 0 THEN 255 ELSE 0] :
              b \in 0..(MaxBlocks - 1), l \in LastLens}

\* Z_DEFAULT_COMPRESSION of zlib.h, the level main starts with (pigz.c:2316)
Z_DEFAULT_COMPRESSION == -1

\* the parts outside the pipeline before they are used
CombIdle == parts = << >> /\ comb = {}
PutIdle ==
    /\ level = Z_DEFAULT_COMPRESSION /\ trail = << >> /\ wire = << >>
    /\ ppc = "none" /\ name = << >> /\ mtime = {}
\* the block size is not above MAX unless an option makes it so
SingleIdle == spc = "none" /\ first = << >> /\ MAX = size
\* global in and the out that process makes of it when a file is compressed
\* to a file (pigz.c:2176-2181)
\* a null pointer to a name: no file has the empty name
NullName == ""
InName == "file"
OutName == "file.gz"
ExitIdle == /\ out = OutName /\ verbosity = 1 /\ files = {InName, OutName}
            /\ stderr = << >> /\ status = << >>
\* output buffer and window of inflateBack: 32768U at pigz.c:1606, scaled so
\* that a stream of a few bytes comes out in more than one chunk
OUTSIZE == 2
DecIdle ==
    /\ decode = 0 /\ in_eof = FALSE /\ out_tot = 0 /\ out_check = {}
    /\ zip = [crc |-> {}, clen |-> {}, ulen |-> {}]
    /\ ipc = "none" /\ ret = 0 /\ ilen = {}
    /\ strm = [at |-> 0, pos |-> 0, form |-> 0]
    /\ outbuf = [i \in 1..OUTSIZE |-> 0]
    /\ opc = "idle" /\ olen = 0
    /\ work = [check |-> {}, len |-> 0]
    /\ cthr = << >>
\* nothing allocated yet: inits counts the calls of job_init on each unit of
\* the array, blocks is the most blocks a stream on this array had, live
\* the allocations not freed and strms the encoders not ended, had the
\* units with a buffer when jobs_free last freed an array and ended the
\* units whose encoder and buffers it released
NoHeap == [inits |-> << >>, blocks |-> 0, live |-> 0, strms |-> 0,
           had |-> {}, ended |-> {}]

\* main has called defaults (pigz.c:2309-2335) and has looked at no argument
OptIdle ==
    /\ get = 0 /\ blocksize = 131072 /\ sufx = <<".", "g", "z">>
    /\ pool = << >> /\ freed = <<{}, {}>> /\ argv = << >> /\ done = 0
    /\ heap = NoHeap
\* process has not been called; the globals as defaults leaves them
\* (pigz.c:2327, 2329, 2331) and out as a static pointer starts
ProcIdle ==
    /\ prc = "none" /\ path = InName /\ st = "regular"
    /\ keep = FALSE /\ pipeout = FALSE /\ list = FALSE
    /\ ind = -1 /\ outd = -1 /\ outp = "null"
    /\ fin = FALSE /\ closed = FALSE

Elsewhere == CombIdle /\ PutIdle /\ SingleIdle /\ ExitIdle /\ DecIdle /\ OptIdle /\ ProcIdle

\* the out buffer of a work unit before any deflate has written to it
NoOutput == [kind |-> "none"]

\* struct work after jobs_new: only buf and busy are set; len, check and comp
\* are not initialized (nothing reads them before read_thread has set them)
NewJob == [buf |-> NULL, out |-> NoOutput, len |-> UNINIT, check |-> {},
           strm |-> [dictionary |-> << >>, next_out |-> 0],
           busy |-> [value |-> IDLE, cond |-> {}], comp |-> 0]

Init ==
    /\ procs \in 2..MaxProcs
    /\ dict \in BOOLEAN
    /\ form \in {0, 1}
    /\ input \in Inputs
    /\ inpos = 0
    /\ jobs = << >>
    /\ thr = << >>
    /\ rpc = "start" /\ n = 0 /\ got = 0
    /\ wpc = "none" /\ wn = 0 /\ wlen = 0 /\ head = 0
    /\ ulen = 0 /\ clen = 0 /\ check = {}
    /\ sink = << >>
    /\ Elsewhere

(***************************************************************************)
(* Flags (pigz.c:507-558).  busy.cond holds the threads blocked in         *)
(* pthread_cond_wait on the flag; the mutex makes each of flag_set and one *)
(* test of the predicate in flag_wait / flag_wait_not atomic.              *)
(***************************************************************************)
Blocked(t) == \E k \in DOMAIN jobs : t \in jobs[k].busy.cond

\* what pthread_cond_signal may do to the set c of blocked threads
Signalled(c) == IF c = {} THEN {{}} ELSE {c \ {t} : t \in c}

\* flag_set without the pthread_cond_signal of line 530
flag_set_NoSignal(k, val) == jobs' = [jobs EXCEPT ![k].busy.value = val]

\* flag_set(&jobs[k].busy, val)
flag_set(k, val) ==
    \E c \in Signalled(jobs[k].busy.cond) :
        jobs' = [jobs EXCEPT ![k].busy = [value |-> val, cond |-> c]]

\* flag_wait and flag_wait_not by thread t when the test of the loop finds
\* the value wrong: t blocks in pthread_cond_wait on the flag
flag_block(t, k) == jobs' = [jobs EXCEPT ![k].busy.cond = @ \cup {t}]

\* a thread leaves pthread_cond_wait without a signal and tests again
SpuriousWakeup ==
    /\ \E k \in DOMAIN jobs : \E t \in jobs[k].busy.cond :
          jobs' = [jobs EXCEPT ![k].busy.cond = @ \ {t}]
    /\ UNCHANGED <<config, elsewhere, thr, rvars, wvars>>

(***************************************************************************)
(* read_thread (pigz.c:936-983), the main thread, called "read".           *)
(***************************************************************************)
\* jobs_new (pigz.c:596-613)
jobs_new == IF jobs = << >> THEN [k \in 0..(procs - 1) |-> NewJob] ELSE jobs

\* job_init (pigz.c:619-633): the buffers hold whatever malloc returned
job_init(job) == [job EXCEPT !.buf = [i \in 1..size |-> UNINIT],
                             !.out = NoOutput,
                             !.strm = [dictionary |-> << >>, next_out |-> 0]]

\* readn (pigz.c:471-488) on ind: the number of bytes a call for len bytes gets
readn(len) == IF Len(input) - inpos < len THEN Len(input) - inpos ELSE len

\* lines 943-950: jobs_new, pthread_create of write_thread, n = 0
ReaderStart ==
    /\ rpc = "start"
    /\ jobs' = jobs_new
    /\ wpc' = "header"
    /\ n' = 0
    /\ rpc' = "init"
    /\ UNCHANGED <<config, elsewhere, thr, got, inpos, wn, wlen, head, ulen, clen, check, sink>>

\* lines 953-954
ReaderInit ==
    /\ rpc = "init"
    /\ jobs' = IF jobs[n].buf = NULL THEN [jobs EXCEPT ![n] = job_init(@)] ELSE jobs
    /\ rpc' = "wait_self"
    /\ UNCHANGED <<config, elsewhere, thr, n, got, inpos, wvars>>

\* line 959: flag_wait_not(&(jobs[n].busy), COMP)
ReaderWaitSelf ==
    /\ rpc = "wait_self" /\ ~Blocked("read")
    /\ IF jobs[n].busy.value # COMP
         THEN rpc' = "wait_next" /\ UNCHANGED jobs
         ELSE flag_block("read", n) /\ UNCHANGED rpc
    /\ UNCHANGED <<config, elsewhere, thr, n, got, inpos, wvars>>

\* line 960 left out: the read thread does not wait for the next unit
ReaderWaitNext_NoWait ==
    /\ rpc = "wait_next" /\ ~Blocked("read")
    /\ rpc' = "read"
    /\ UNCHANGED <<config, elsewhere, jobs, thr, n, got, inpos, wvars>>

\* line 960: flag_wait_not(&(jobs[NEXT(n)].busy), COMP)
ReaderWaitNext ==
    /\ rpc = "wait_next" /\ ~Blocked("read")
    /\ IF jobs[NEXT(n)].busy.value # COMP
         THEN rpc' = "read" /\ UNCHANGED jobs
         ELSE flag_block("read", NEXT(n)) /\ UNCHANGED rpc
    /\ UNCHANGED <<config, elsewhere, thr, n, got, inpos, wvars>>

\* line 961: got = readn(ind, jobs[n].buf, size)
ReaderRead ==
    /\ rpc = "read"
    /\ got' = readn(size)
    /\ jobs' = [jobs EXCEPT ![n].buf =
                   [i \in 1..size |-> IF i <= got' THEN input[inpos + i] ELSE @[i]]]
    /\ inpos' = inpos + got'
    /\ rpc' = "wait_idle"
    /\ UNCHANGED <<config, elsewhere, thr, n, wvars>>

\* line 965: flag_wait(&(jobs[n].busy), IDLE)
ReaderWaitIdle ==
    /\ rpc = "wait_idle" /\ ~Blocked("read")
    /\ IF jobs[n].busy.value = IDLE
         THEN rpc' = "spawn" /\ UNCHANGED jobs
         ELSE flag_block("read", n) /\ UNCHANGED rpc
    /\ UNCHANGED <<config, elsewhere, thr, n, got, inpos, wvars>>

\* lines 966-967: jobs[n].len = got, pthread_create of compress_thread on jobs + n
ReaderSpawn ==
    /\ rpc = "spawn"
    /\ thr' = Append(thr, [pc |-> "start", job |-> n, len |-> 0])
    /\ jobs' = [jobs EXCEPT ![n].len = got, ![n].comp = Len(thr) + 1]
    /\ rpc' = "set_comp"
    /\ UNCHANGED <<config, elsewhere, n, got, inpos, wvars>>

\* lines 970-976 with got != 0 for got == size in the loop test of line 976
ReaderSetComp_UntilEmpty ==
    /\ rpc = "set_comp"
    /\ flag_set(n, COMP)
    /\ n' = NEXT(n)
    /\ rpc' = IF got # 0 THEN "init" ELSE "join"
    /\ UNCHANGED <<config, elsewhere, thr, got, inpos, wvars>>

\* lines 970-976 with WRITE for COMP in the flag_set of line 970
ReaderSetComp_Write ==
    /\ rpc = "set_comp"
    /\ flag_set(n, WRITE)
    /\ n' = NEXT(n)
    /\ rpc' = IF got = size THEN "init" ELSE "join"
    /\ UNCHANGED <<config, elsewhere, thr, got, inpos, wvars>>

\* lines 970-976: flag_set(&(jobs[n].busy), COMP), n = NEXT(n), the loop test
ReaderSetComp ==
    /\ rpc = "set_comp"
    /\ flag_set(n, COMP)
    /\ n' = NEXT(n)
    /\ rpc' = IF got = size THEN "init" ELSE "join"
    /\ UNCHANGED <<config, elsewhere, thr, got, inpos, wvars>>

\* line 981: pthread_join(write, NULL), then read_thread returns
ReaderJoin ==
    /\ rpc = "join"
    /\ wpc = "done"
    /\ wpc' = "joined"
    /\ rpc' = "done"
    /\ UNCHANGED <<config, elsewhere, jobs, thr, n, got, inpos, wn, wlen, head, ulen, clen, check, sink>>

Reader == \/ ReaderStart \/ ReaderInit \/ ReaderWaitSelf \/ ReaderWaitNext
          \/ ReaderRead \/ ReaderWaitIdle \/ ReaderSpawn \/ ReaderSetComp
          \/ ReaderJoin

(***************************************************************************)
(* compress_thread (pigz.c:831-878); id is the position of the thread in   *)
(* thr, so the thread compresses block id - 1.                             *)
(***************************************************************************)
Z_SYNC_FLUSH == "Z_SYNC_FLUSH"
Z_FINISH == "Z_FINISH"

\* the bytes buf + from .. buf + from + len - 1 as a read of them can return
\* them: a byte that was never written reads as any byte
ReadBytes(buf, from, len) ==
    IF \A i \in 1..len : buf[from + i] # UNINIT
      THEN {[i \in 1..len |-> buf[from + i]]}
      ELSE {[i \in 1..len |-> IF buf[from + i] = UNINIT THEN g[i] ELSE buf[from + i]] :
               g \in [1..len -> Bytes]}

\* the number of bytes deflate writes for len input bytes (zlib; the model
\* takes a stored block: the bytes, a 5-byte block header, and the 5-byte
\* empty stored block of a sync flush)
deflate_count(len, flush) == len + 5 + (IF flush = Z_SYNC_FLUSH THEN 5 ELSE 0)

\* lines 841-854: deflateReset, len = job->len, and deflateSetDictionary with
\* the last DICT bytes of the previous unit's buffer if dict is set, that
\* buffer exists and len is not 0
CompressStart(id) ==
    /\ thr[id].pc = "start"
    /\ LET job == thr[id].job
           len == jobs[job].len
           prev == PREV(job)
       IN /\ thr' = [thr EXCEPT ![id].pc = "deflate", ![id].len = len]
          /\ IF dict /\ jobs[prev].buf # NULL /\ len # 0
               THEN \E d \in ReadBytes(jobs[prev].buf, size - DICT, DICT) :
                      jobs' = [jobs EXCEPT ![job].strm =
                                  [dictionary |-> d, next_out |-> 0]]
               ELSE jobs' = [jobs EXCEPT ![job].strm =
                                  [dictionary |-> << >>, next_out |-> 0]]
    /\ UNCHANGED <<config, elsewhere, rvars, wvars>>

\* lines 856-877 with <= for < in the test of line 872
CompressDeflate_Finish(id) ==
    /\ thr[id].pc = "deflate"
    /\ LET job == thr[id].job
           len == thr[id].len
           flush == IF jobs[job].len <= size THEN Z_FINISH ELSE Z_SYNC_FLUSH
       IN \E data \in ReadBytes(jobs[job].buf, 0, len) :
            jobs' = [jobs EXCEPT
               ![job].out = [kind |-> "block", seq |-> id - 1, data |-> data,
                             dictionary |-> jobs[job].strm.dictionary,
                             flush |-> flush],
               ![job].strm.next_out = deflate_count(len, flush),
               ![job].check = CHECK(form, CHECK0(form), data)]
    /\ thr' = [thr EXCEPT ![id].pc = "done"]
    /\ UNCHANGED <<config, elsewhere, rvars, wvars>>

\* lines 856-877: check and deflate of the len bytes of job->buf into
\* job->out, finished if job->len < size and sync-flushed otherwise, then
\* job->check = check and the thread ends
CompressDeflate(id) ==
    /\ thr[id].pc = "deflate"
    /\ LET job == thr[id].job
           len == thr[id].len
           flush == IF jobs[job].len < size THEN Z_FINISH ELSE Z_SYNC_FLUSH
       IN \E data \in ReadBytes(jobs[job].buf, 0, len) :
            jobs' = [jobs EXCEPT
               ![job].out = [kind |-> "block", seq |-> id - 1, data |-> data,
                             dictionary |-> jobs[job].strm.dictionary,
                             flush |-> flush],
               ![job].strm.next_out = deflate_count(len, flush),
               ![job].check = CHECK(form, CHECK0(form), data)]
    /\ thr' = [thr EXCEPT ![id].pc = "done"]
    /\ UNCHANGED <<config, elsewhere, rvars, wvars>>

Compress == \E id \in DOMAIN thr : CompressStart(id) \/ CompressDeflate(id)

(***************************************************************************)
(* write_thread (pigz.c:882-931), called "write".                          *)
(***************************************************************************)
\* the length put_header returns (pigz.c:690-749) when no name is stored
put_header == IF form > 1 THEN 30 + 1 + 9 ELSE IF form = 1 THEN 2 ELSE 10

\* lines 893-898: the header is written, then ulen = clen = 0,
\* check = CHECK(0L, Z_NULL, 0), n = 0
WriterHeader ==
    /\ wpc = "header"
    /\ sink' = Append(sink, [kind |-> "header", form |-> form])
    /\ head' = put_header
    /\ ulen' = 0 /\ clen' = 0
    /\ check' = CHECK0(form)
    /\ wn' = 0
    /\ wpc' = "wait_comp"
    /\ UNCHANGED <<config, elsewhere, jobs, thr, rvars, wlen>>

\* line 901 left out: the write thread does not wait for the flag
WriterWaitComp_NoWait ==
    /\ wpc = "wait_comp" /\ ~Blocked("write")
    /\ wpc' = "join"
    /\ UNCHANGED <<config, elsewhere, jobs, thr, rvars, wn, wlen, head, ulen, clen, check, sink>>

\* line 901: flag_wait(&(jobs[n].busy), COMP)
WriterWaitComp ==
    /\ wpc = "wait_comp" /\ ~Blocked("write")
    /\ IF jobs[wn].busy.value = COMP
         THEN wpc' = "join" /\ UNCHANGED jobs
         ELSE flag_block("write", wn) /\ UNCHANGED wpc
    /\ UNCHANGED <<config, elsewhere, thr, rvars, wn, wlen, head, ulen, clen, check, sink>>

\* line 902 left out: the write thread does not join the compress thread
WriterJoin_NoWait ==
    /\ wpc = "join"
    /\ wpc' = "set_write"
    /\ UNCHANGED <<config, elsewhere, jobs, thr, rvars, wn, wlen, head, ulen, clen, check, sink>>

\* line 902: pthread_join(jobs[n].comp, NULL) returns once that thread ended
WriterJoin ==
    /\ wpc = "join"
    /\ thr[jobs[wn].comp].pc = "done"
    /\ thr' = [thr EXCEPT ![jobs[wn].comp].pc = "joined"]
    /\ wpc' = "set_write"
    /\ UNCHANGED <<config, elsewhere, jobs, rvars, wn, wlen, head, ulen, clen, check, sink>>

\* line 905 with IDLE for WRITE: the unit is released in one step
WriterSetWrite_Idle ==
    /\ wpc = "set_write"
    /\ flag_set(wn, IDLE)
    /\ wpc' = "write"
    /\ UNCHANGED <<config, elsewhere, thr, rvars, wn, wlen, head, ulen, clen, check, sink>>

\* line 905: flag_set(&(jobs[n].busy), WRITE)
WriterSetWrite ==
    /\ wpc = "set_write"
    /\ flag_set(wn, WRITE)
    /\ wpc' = "write"
    /\ UNCHANGED <<config, elsewhere, thr, rvars, wn, wlen, head, ulen, clen, check, sink>>

\* lines 909-914: the output of the unit is written, then len, ulen, clen and
\* check are updated from the unit
WriterWrite ==
    /\ wpc = "write"
    /\ sink' = Append(sink, jobs[wn].out)
    /\ wlen' = jobs[wn].len
    /\ ulen' = ulen + jobs[wn].len
    /\ clen' = clen + jobs[wn].strm.next_out
    /\ check' = COMB(form, check, jobs[wn].check, jobs[wn].len)
    /\ wpc' = "set_idle"
    /\ UNCHANGED <<config, elsewhere, jobs, thr, rvars, wn, head>>

\* lines 918-926 with the loop test of line 926 inverted
WriterSetIdle_StopEarly ==
    /\ wpc = "set_idle"
    /\ flag_set(wn, IDLE)
    /\ wn' = NEXT(wn)
    /\ wpc' = IF wlen # size THEN "wait_comp" ELSE "trailer"
    /\ UNCHANGED <<config, elsewhere, thr, rvars, wlen, head, ulen, clen, check, sink>>

\* lines 918-926: flag_set(&(jobs[n].busy), IDLE), n = NEXT(n), the loop test
WriterSetIdle ==
    /\ wpc = "set_idle"
    /\ flag_set(wn, IDLE)
    /\ wn' = NEXT(wn)
    /\ wpc' = IF wlen = size THEN "wait_comp" ELSE "trailer"
    /\ UNCHANGED <<config, elsewhere, thr, rvars, wlen, head, ulen, clen, check, sink>>

\* line 929: put_trailer(ulen, clen, check, head), then the thread ends
WriterTrailer ==
    /\ wpc = "trailer"
    /\ sink' = Append(sink, [kind |-> "trailer", ulen |-> ulen, clen |-> clen,
                             check |-> check, head |-> head])
    /\ wpc' = "done"
    /\ UNCHANGED <<config, elsewhere, jobs, thr, rvars, wn, wlen, head, ulen, clen, check>>

Writer == \/ WriterHeader \/ WriterWaitComp \/ WriterJoin \/ WriterSetWrite
          \/ WriterWrite \/ WriterSetIdle \/ WriterTrailer

\* a step of one of the threads of the program
Step == Reader \/ Writer \/ Compress

Next == Step \/ SpuriousWakeup

Spec == Init /\ [][Next]_vars

\* the scheduler runs every thread that can run: the main thread, the write
\* thread and the compress threads; a spurious wakeup may never happen.
\* No guard of any step reads form or dict, and with dict set a compress
\* thread has every step it has without, so the runs are those of gzip with
\* dict set
FairInit == Init /\ form = 0 /\ dict
FairSpec == FairInit /\ [][Next]_vars
            /\ WF_vars(Reader) /\ WF_vars(Writer) /\ WF_vars(Compress)

(***************************************************************************)
(* What the properties speak about.                                        *)
(***************************************************************************)
\* the number of blocks of the input and the bytes of block k (k from 0)
NumBlocks == Len(input) \div size + 1
Block(k) == SubSeq(input, k * size + 1,
                   IF (k + 1) * size < Len(input) THEN (k + 1) * size ELSE Len(input))

\* compress thread id has been created and has not ended
Running(id) == thr[id].pc \in {"start", "deflate"}
\* the read thread is about to store into jobs[k].buf / into jobs[k].len
ReaderWritesBuf(k) == rpc = "read" /\ n = k
ReaderWritesLen(k) == rpc = "spawn" /\ n = k
\* the write thread has unit k past the join and has yet to read its out
\* buffer, output count, check and len
WriterReads(k) == wpc \in {"set_write", "write"} /\ wn = k
WriterEnded == wpc \in {"done", "joined"}

\* C1: at every moment outd holds a prefix of: the header, then the output of
\* the compress thread of block 0, 1, ... in input order, each once, then the
\* trailer; once read_thread has returned it holds all of it
C1_OutputInOrder ==
    /\ Len(sink) <= NumBlocks + 2
    /\ \A i \in 1..Len(sink) :
          /\ (i = 1) => sink[i].kind = "header"
          /\ (1 < i /\ i < NumBlocks + 2) =>
                /\ sink[i].kind = "block"
                /\ sink[i].seq = i - 2
                /\ sink[i].data = Block(i - 2)
          /\ (i = NumBlocks + 2) => sink[i].kind = "trailer"
    /\ rpc = "done" => Len(sink) = NumBlocks + 2

\* a stream of three blocks through two units has been written completely
C1_Witness == rpc = "done" /\ procs = 2 /\ Len(sink) = 5 /\ sink[5].kind = "trailer"

\* C2: while the compress thread of unit k runs, the read thread is not
\* storing into the input buffer or the len of unit k and the write thread is
\* not reading unit k; and the read thread does not store the len of a unit
\* whose len the write thread has yet to read
C2_NoConflictingAccess ==
    /\ \A id \in DOMAIN thr :
          Running(id) => /\ ~ReaderWritesBuf(thr[id].job)
                         /\ ~ReaderWritesLen(thr[id].job)
                         /\ ~WriterReads(thr[id].job)
    /\ jobs # << >> => \A k \in DOMAIN jobs : ~(ReaderWritesLen(k) /\ WriterReads(k))

\* the read thread refills the input buffer of unit 0, which an earlier
\* compress thread has used, while the write thread reads another unit and a
\* compress thread runs on a third
C2_Witness ==
    /\ rpc = "read" /\ n = 0 /\ Len(thr) >= procs
    /\ wpc = "write"
    /\ \E id \in DOMAIN thr : Running(id)

\* C3: a flag changes only from IDLE to COMP in a step of the read thread,
\* from COMP to WRITE or from WRITE to IDLE in a step of the write thread
C3_FlagTransitions ==
    [][(jobs # << >> /\ jobs' # << >>) =>
        \A k \in DOMAIN jobs :
           LET a == jobs[k].busy.value
               b == jobs'[k].busy.value
           IN a # b =>
               \/ a = IDLE /\ b = COMP /\ rpc = "set_comp" /\ n = k
                    /\ rpc' # rpc /\ wpc' = wpc /\ thr' = thr
               \/ a = COMP /\ b = WRITE /\ wpc = "set_write" /\ wn = k
                    /\ wpc' # wpc /\ rpc' = rpc /\ thr' = thr
               \/ a = WRITE /\ b = IDLE /\ wpc = "set_idle" /\ wn = k
                    /\ wpc' # wpc /\ rpc' = rpc /\ thr' = thr]_vars

\* unit 0 is COMP for the second time while unit 1 is being written
C3_Witness ==
    /\ procs = 2 /\ Len(thr) = 3
    /\ jobs[0].busy.value = COMP /\ jobs[1].busy.value = WRITE

\* C4: with dict set, while the compress thread of block k >= 1 exists and
\* has not ended, the buffer of the previous unit holds block k-1 and the read
\* thread is not reading into it; and the flag of the unit of a thread that
\* is not yet joined is COMP (from the flag_set that follows its creation)
C4_DictionaryIntact ==
    dict => \A id \in DOMAIN thr :
        /\ (id >= 2 /\ Running(id)) =>
              /\ jobs[PREV(thr[id].job)].buf = Block(id - 2)
              /\ ~ReaderWritesBuf(PREV(thr[id].job))
        /\ thr[id].pc # "joined" =>
              \/ jobs[thr[id].job].busy.value = COMP
              \/ rpc = "set_comp" /\ n = thr[id].job

\* the read thread waits to refill unit 0 while the compress thread of block
\* 1, which has the buffer of unit 0 as its dictionary, still runs
C4_Witness ==
    /\ dict /\ procs = 2 /\ Len(thr) = 2 /\ Running(2)
    /\ rpc = "wait_next" /\ n = 0 /\ Blocked("read")

\* the block outputs written to outd so far, and their bytes up to the i-th
SinkBlocks == {i \in 1..Len(sink) : sink[i].kind = "block"}
RECURSIVE DataBefore(_)
DataBefore(i) == IF i <= 2 THEN << >> ELSE DataBefore(i - 1) \o sink[i - 1].data
\* the last DICT bytes of s, or none if s is shorter
LastDict(s) == IF Len(s) < DICT THEN << >> ELSE SubSeq(s, Len(s) - DICT + 1, Len(s))

\* C5: the compress thread of block 0 sets no dictionary; a dictionary is set
\* only for a block k >= 1 of length > 0
C5_Block0NoDictionary ==
    \A id \in DOMAIN thr :
        (thr[id].pc \in {"deflate", "done"}
            /\ jobs[thr[id].job].strm.dictionary # << >>) =>
                (id >= 2 /\ thr[id].len > 0)

\* C6: a block output is finished exactly if its input is shorter than size,
\* which is the case for the last block of the input only; the last thread
\* the read thread creates and the last block the write thread writes are
\* that block, and every other block is sync-flushed
C6_OneFinish ==
    /\ \A i \in SinkBlocks :
          /\ sink[i].flush = Z_FINISH <=> Len(sink[i].data) < size
          /\ sink[i].flush = Z_FINISH <=> sink[i].seq = NumBlocks - 1
          /\ sink[i].flush # Z_FINISH => sink[i].flush = Z_SYNC_FLUSH
    /\ \A id \in DOMAIN thr :
          thr[id].pc = "done" =>
             (jobs[thr[id].job].out.flush = Z_FINISH <=> id = NumBlocks)
    /\ rpc \in {"join", "done"} =>
          /\ Len(thr) = NumBlocks
          /\ jobs[thr[Len(thr)].job].len < size
    /\ WriterEnded =>
          /\ sink[Len(sink) - 1].kind = "block"
          /\ sink[Len(sink) - 1].flush = Z_FINISH
          /\ Cardinality({i \in SinkBlocks : sink[i].flush = Z_FINISH}) = 1

\* a stream of four blocks has been written: three sync-flushed, one finished
C6_Witness ==
    /\ WriterEnded /\ Cardinality(SinkBlocks) = 4
    /\ Cardinality({i \in SinkBlocks : sink[i].flush = Z_SYNC_FLUSH}) = 3

\* C7: the stream written decodes to the input: the block outputs hold the
\* input once and in order, all but the last sync-flushed, and every block
\* that was compressed with a dictionary had the DICT bytes of the input
\* before it as the dictionary (block 0 none)
C7_RoundTrip ==
    rpc = "done" =>
        /\ DataBefore(Len(sink)) = input
        /\ \A i \in SinkBlocks :
              /\ sink[i].flush = (IF i = Len(sink) - 1 THEN Z_FINISH ELSE Z_SYNC_FLUSH)
              /\ sink[i].dictionary # << >> =>
                    (i > 2 /\ sink[i].dictionary = LastDict(DataBefore(i)))

\* the output of block k in the run in which every compress thread ends
\* before the read thread goes on
ReferenceBlock(k) ==
    LET flush == IF Len(Block(k)) < size THEN Z_FINISH ELSE Z_SYNC_FLUSH
    IN [kind |-> "block", seq |-> k, data |-> Block(k),
        dictionary |-> IF dict /\ k > 0 /\ Len(Block(k)) # 0
                         THEN LastDict(Block(k - 1)) ELSE << >>,
        flush |-> flush]

\* C8: every run of the same configuration on the same input writes the same
\* output: the output of the run named above
C8_Deterministic ==
    rpc = "done" =>
        /\ Len(sink) = NumBlocks + 2
        /\ \A i \in 2..(NumBlocks + 1) : sink[i] = ReferenceBlock(i - 2)

\* the threads are all joined, the trailer is written, every flag is IDLE
AllJoined ==
    /\ \A id \in DOMAIN thr : thr[id].pc = "joined"
    /\ wpc = "joined"
    /\ sink # << >> /\ sink[Len(sink)].kind = "trailer"
    /\ \A k \in DOMAIN jobs : jobs[k].busy = [value |-> IDLE, cond |-> {}]

\* C9: read_thread returns in the end, until then some thread can always
\* take a step, and when it returns every thread has been joined, the trailer
\* is written and every flag is IDLE
C9_Terminates ==
    /\ <>(rpc = "done")
    /\ [](rpc # "done" => ENABLED Step)
    /\ [](rpc = "done" => AllJoined)

\* read_thread has returned from a stream of four blocks through two units
C9_Witness == rpc = "done" /\ procs = 2 /\ Len(thr) = 4 /\ AllJoined

RECURSIVE SumCount(_)
SumCount(i) == IF i < 2 THEN 0
               ELSE SumCount(i - 1)
                    + (IF sink[i].kind = "block"
                         THEN deflate_count(Len(sink[i].data), sink[i].flush) ELSE 0)

\* C10: the trailer gets the check of the whole input (CRC-32 for gzip,
\* Adler-32 for zlib), the length of the input and the sum of the output
\* counts of the blocks
C10_TrailerValues ==
    WriterEnded =>
        LET t == sink[Len(sink)]
        IN /\ t.check = CHECK(form, CHECK0(form), input)
           /\ t.ulen = Len(input)
           /\ t.clen = SumCount(Len(sink))

(***************************************************************************)
(* The parts below run without the pipeline: its variables stay as they    *)
(* are before read_thread is called.                                       *)
(***************************************************************************)
pipeline == <<procs, dict, input, inpos, jobs, thr, rvars, wvars>>

PipelineIdle ==
    /\ procs = 2 /\ dict = FALSE /\ input = << >> /\ inpos = 0
    /\ jobs = << >> /\ thr = << >>
    /\ rpc = "start" /\ n = 0 /\ got = 0
    /\ wpc = "none" /\ wn = 0 /\ wlen = 0 /\ head = 0
    /\ ulen = 0 /\ clen = 0 /\ check = {}
    /\ sink = << >>

(***************************************************************************)
(* COMB applied from left to right to the checks of a sequence of regions, *)
(* as write_thread applies it to the checks of the blocks (pigz.c:914).    *)
(***************************************************************************)
\* the longest region and the largest number of regions that are combined
MaxRegion == 2
MaxParts == 3

\* the byte regions tried: all of up to MaxRegion bytes (the loop of
\* crc32_comb is modelled for len2 < 2^size, see ZeroOps)
Regions == UNION {[1..l -> Bytes] : l \in 0..MaxRegion}

RECURSIVE Flatten(_)
Flatten(ps) == IF ps = << >> THEN << >> ELSE Head(ps) \o Flatten(Tail(ps))

CombInit ==
    /\ form \in {0, 1}
    /\ parts = << >>
    /\ comb = CHECK0(form)
    /\ PipelineIdle /\ PutIdle /\ SingleIdle /\ ExitIdle /\ DecIdle /\ OptIdle /\ ProcIdle

\* check = COMB(check, CHECK(0, B), |B|) for a next region B
Combine ==
    /\ Len(parts) < MaxParts
    /\ \E B \in Regions :
          /\ parts' = Append(parts, B)
          /\ comb' = COMB(form, comb, CHECK(form, CHECK0(form), B), Len(B))
    /\ UNCHANGED <<form, pipeline, hvars, svars, evars, dvars, ovars, pvars>>

CombNext == Combine

CombSpec == CombInit /\ [][CombNext]_vars

\* C11: combining with crc32_comb, from left to right, the CRC-32 values of
\* regions gives the CRC-32 of the regions concatenated: for region A so far
\* with CRC-32 a and a next region B, crc32_comb(a, crc32(B), |B|) is the
\* CRC-32 of A||B, also for empty A and for empty B
C11_CrcCombined == form = 0 => comb = crc32({}, Flatten(parts))

\* an empty region has been combined between two regions that are not empty
C11_Witness ==
    /\ form = 0 /\ Len(parts) = 3
    /\ parts[1] # << >> /\ parts[2] = << >> /\ Len(parts[3]) = MaxRegion

\* the two halves of an Adler-32 value
Lo(adler) == Value(adler \cap LOW16)
Hi(adler) == Value(Shr(adler, 16) \cap LOW16)

\* C12: for a region A with Adler-32 a and a next region B,
\* adler32_comb(a, adler32(B), |B|) is the Adler-32 of A||B, and both halves
\* of it are less than 65521
C12_AdlerCombined ==
    [][(form = 1 /\ comb = adler32({0}, Flatten(parts))) =>
          /\ comb' = adler32({0}, Flatten(parts'))
          /\ Lo(comb') < BASE /\ Hi(comb') < BASE]_vars

(***************************************************************************)
(* put_header and put_trailer (pigz.c:685-822).                            *)
(***************************************************************************)
\* the value an unsigned char gets when a word is stored in it
Byte(w) == Value(w \cap (0..7))

\* PUT2L and PUT4L with the halves of the word in the wrong order
PUT4L_HighFirst(b) ==
    <<Byte(Shr(b, 16)), Byte(Shr(Shr(b, 16), 8)), Byte(b \cap LOW16), Byte(Shr(b \cap LOW16, 8))>>

PUT2L(b) == <<Byte(b), Byte(Shr(b, 8))>>
PUT4L(b) == PUT2L(b \cap LOW16) \o PUT2L(Shr(b, 16))
PUT4M(b) == <<Byte(Shr(b, 24)), Byte(Shr(b, 16)), Byte(Shr(b, 8)), Byte(b)>>

\* the longest name that is stored
MaxName == 2

\* the sum of two unsigned long of 64 bits
Add(a, b) ==
    LET carry[i \in 0..64] ==
            IF i = 0 THEN FALSE
            ELSE \/ (i - 1) \in a /\ (i - 1) \in b
                 \/ carry[i - 1] /\ ((i - 1) \in a \/ (i - 1) \in b)
    IN  {i \in 0..63 : ((i \in a) # (i \in b)) # carry[i]}

\* strlen(name), and name == NULL ? 1 : strlen(name)
strlen(nm) == Len(nm[1])
zip_name_len == IF name = << >> THEN 1 ELSE strlen(name)
\* the name written in a zip header: "-" for NULL
zip_name == IF name = << >> THEN <<45>> ELSE name[1]

\* time(NULL): 2004-01-10 13:37:05 UTC
time_null == {0, 30}

\* localtime for the times that are tried, in the time zone UTC
localtime(t) ==
    IF t = {30}
    THEN [tm_year |-> 104, tm_mon |-> 0, tm_mday |-> 10, tm_hour |-> 13,
          tm_min |-> 37, tm_sec |-> 4]
    ELSE IF t = {0, 30}
    THEN [tm_year |-> 104, tm_mon |-> 0, tm_mday |-> 10, tm_hour |-> 13,
          tm_min |-> 37, tm_sec |-> 5]
    ELSE IF t = {3, 31, 33}
    THEN [tm_year |-> 410, tm_mon |-> 3, tm_mday |-> 4, tm_hour |-> 16,
          tm_min |-> 10, tm_sec |-> 48]
    ELSE [tm_year |-> 70, tm_mon |-> 0, tm_mday |-> 1, tm_hour |-> 0,
          tm_min |-> 0, tm_sec |-> 1]

\* lines 664-682: the fields do not overlap, so their sum is their union
time2dos(t) ==
    LET tm == localtime(IF t = {} THEN time_null ELSE t)
    IN  IF tm.tm_year < 80 \/ tm.tm_year > 207 THEN {}
        ELSE Shl(Word(tm.tm_year - 80), 25) \cup Shl(Word(tm.tm_mon + 1), 21)
               \cup Shl(Word(tm.tm_mday), 16) \cup Shl(Word(tm.tm_hour), 11)
               \cup Shl(Word(tm.tm_min), 5) \cup Word((tm.tm_sec + 1) \div 2)

\* lines 719-723 and 796-800: the extended timestamp extra field block
extra_block == PUT2L(Word(21589)) \o PUT2L(Word(5)) \o <<1>> \o PUT4L(mtime)

\* the level bits with == 6 for >= 6 in line 728
zlib_level_bits_Only6(lev) ==
    IF lev = 9 THEN 3
    ELSE IF lev = 1 THEN 0
    ELSE IF lev = 6 \/ lev = Z_DEFAULT_COMPRESSION THEN 1 ELSE 2

\* lines 727-728: the value that is shifted into the top two bits of head[1]
zlib_level_bits(lev) ==
    IF lev = 9 THEN 3
    ELSE IF lev = 1 THEN 0
    ELSE IF lev >= 6 \/ lev = Z_DEFAULT_COMPRESSION THEN 1 ELSE 2

\* line 729 with the remainder itself added
zlib_check_bits_Remainder(head0, head1) == (head0 * 256 + head1) % 31

\* line 729: what is added to head[1]
zlib_check_bits(head0, head1) == 31 - ((head0 * 256 + head1) % 31)

\* lines 696-723: the zip local header, the name and the extra field block
zip_local_header ==
    PUT4L({4, 6, 8, 9, 11, 14, 16, 17, 26}) \o PUT2L(Word(20)) \o PUT2L(Word(8))
      \o PUT2L(Word(8)) \o PUT4L(time2dos(mtime))
      \o PUT4L({}) \o PUT4L({}) \o PUT4L({})
      \o PUT2L(Word(zip_name_len)) \o PUT2L(Word(9))
      \o zip_name \o extra_block

\* lines 734-746 with the name written without its terminating zero
put_gzip_header_NoZero ==
    <<31, 139, 8, IF name # << >> THEN 8 ELSE 0>> \o PUT4L(mtime)
      \o <<IF level = 9 THEN 2 ELSE IF level = 1 THEN 4 ELSE 0, 3>>
      \o (IF name # << >> THEN name[1] ELSE << >>)

\* lines 734-746: the gzip header and the name with its terminating zero
put_gzip_header ==
    <<31, 139, 8, IF name # << >> THEN 8 ELSE 0>> \o PUT4L(mtime)
      \o <<IF level = 9 THEN 2 ELSE IF level = 1 THEN 4 ELSE 0, 3>>
      \o (IF name # << >> THEN name[1] \o <<0>> ELSE << >>)

\* the bytes put_header writes: zip (lines 696-723), zlib (lines 726-730)
\* or gzip (lines 734-746)
put_header_bytes ==
    IF form > 1 THEN zip_local_header
    ELSE IF form = 1
      THEN LET head0 == 120
               head1 == zlib_level_bits(level) * 64
           IN <<head0, (head1 + zlib_check_bits(head0, head1)) % 256>>
      ELSE put_gzip_header

\* the value put_header returns: len at lines 708, 715, 724, 731, 742, 746
put_header_len ==
    IF form > 1 THEN 30 + zip_name_len + 9
    ELSE IF form = 1 THEN 2
    ELSE 10 + (IF name # << >> THEN strlen(name) + 1 ELSE 0)

\* line 806 with the data descriptor left out of the offset
zip_cent_offset_NoDescriptor(t) == Add(t.head, t.clen)

\* line 806: head + clen + 12
zip_cent_offset(t) == Add(Add(t.head, t.clen), Word(12))

\* lines 761-808: the data descriptor, the central file header with name
\* and extra field block, and the end of central directory record
zip_trailer_bytes(t) ==
    PUT4L(t.check) \o PUT4L(t.clen) \o PUT4L(t.ulen)
      \o PUT4L({4, 6, 8, 9, 11, 14, 16, 25}) \o <<63, 255>>
      \o PUT2L(Word(20)) \o PUT2L(Word(8)) \o PUT2L(Word(8))
      \o PUT4L(time2dos(mtime))
      \o PUT4L(t.check) \o PUT4L(t.clen) \o PUT4L(t.ulen)
      \o PUT2L(Word(zip_name_len)) \o PUT2L(Word(9)) \o PUT2L({})
      \o PUT2L({}) \o PUT2L({}) \o PUT4L({}) \o PUT4L({})
      \o zip_name \o extra_block
      \o PUT4L({4, 6, 8, 9, 11, 14, 16, 18, 25, 26}) \o PUT2L({}) \o PUT2L({})
      \o PUT2L(Word(1)) \o PUT2L(Word(1))
      \o PUT4L(Word(46 + zip_name_len + 9))
      \o PUT4L(zip_cent_offset(t)) \o PUT2L({})

\* the bytes put_trailer writes: zip (lines 761-808), zlib (lines 814-815)
\* or gzip (lines 818-820)
put_trailer_bytes(t) ==
    IF form > 1 THEN zip_trailer_bytes(t)
    ELSE IF form = 1 THEN PUT4M(t.check)
    ELSE PUT4L(t.check) \o PUT4L(t.ulen)

\* the levels the options can set (pigz.c:2390-2394) and the default
Levels == {Z_DEFAULT_COMPRESSION} \cup (0..9)

\* check values and lengths handed to put_trailer: an unsigned long may be
\* wider than 32 bits, so a length may have bits from 32 on
TrailChecks == {{}, {0}, AllOnes, {0, 9, 18, 27, 31}}
TrailLens == {{}, {0, 8}, {32}, {1, 15, 31, 32, 47}, 0..63}
\* compressed lengths: 8, 2^32 - 20 and 2^32 + 8
TrailClens == {{3}, (0..31) \ {0, 1, 4}, {3, 32}}

\* the names and times tried: NULL, "", "a", "ab"; 0, 1, 2^30 and a time
\* of more than 32 bits
Names == {<< >>} \cup {<<[i \in 1..l |-> 96 + i]>> : l \in 0..MaxName}
Mtimes == {{}, {0}, {30}, {3, 31, 33}}

PutInit ==
    /\ form \in {0, 1, 2}
    /\ level \in Levels
    /\ name \in Names
    /\ mtime \in Mtimes
    /\ trail \in [ulen : TrailLens, clen : TrailClens, check : TrailChecks,
                  head : {{}}]
    /\ wire = << >>
    /\ ppc = "header"
    /\ PipelineIdle /\ CombIdle /\ SingleIdle /\ ExitIdle /\ DecIdle /\ OptIdle /\ ProcIdle

\* head = put_header()
PutHeader ==
    /\ ppc = "header"
    /\ wire' = wire \o put_header_bytes
    /\ trail' = [trail EXCEPT !.head = Word(put_header_len)]
    /\ ppc' = "trailer"
    /\ UNCHANGED <<form, pipeline, cvars, ovars, pvars, level, name, mtime, svars, evars,
                   dvars>>

\* put_trailer(ulen, clen, check, head)
PutTrailer ==
    /\ ppc = "trailer"
    /\ wire' = wire \o put_trailer_bytes(trail)
    /\ ppc' = "done"
    /\ UNCHANGED <<form, pipeline, cvars, ovars, pvars, level, trail, name, mtime, svars,
                   evars, dvars>>

PutNext == PutHeader \/ PutTrailer

PutSpec == PutInit /\ [][PutNext]_vars

\* byte k (from 0) of the little-endian form of the low 32 bits of a word
LittleEndian(w, k) ==
    LET b(j) == IF (8 * k + j) \in w THEN 2^j ELSE 0
    IN b(0) + b(1) + b(2) + b(3) + b(4) + b(5) + b(6) + b(7)

\* the bytes written after the header
Trailer == SubSeq(wire, Len(put_header_bytes) + 1, Len(wire))

\* C19: the gzip trailer is 8 bytes: the check in little-endian order, then
\* the low 32 bits of the uncompressed length in little-endian order, also
\* for a length of 2^32 or more
C19_GzipTrailer ==
    (form = 0 /\ ppc = "done") =>
        /\ Len(Trailer) = 8
        /\ \A k \in 0..3 : /\ Trailer[k + 1] = LittleEndian(trail.check, k)
                           /\ Trailer[k + 5] = LittleEndian(trail.ulen, k)

\* the trailer of a length of 2^32 + 2^47 + 2^31 + 2^15 + 2 has been written
C19_Witness ==
    /\ form = 0 /\ ppc = "done"
    /\ trail.check = {0, 9, 18, 27, 31} /\ trail.ulen = {1, 15, 31, 32, 47}
    /\ Trailer = <<1, 2, 4, 136, 2, 128, 0, 128>>

\* C20 as stated: the top two bits of the second byte of the zlib header are
\* 3 for level 9, 0 for level 1, 1 for level 6 or the default, 2 for every
\* other level
C20_LevelBits_AsStated ==
    (form = 1 /\ ppc # "header") =>
        wire[2] \div 64 = (IF level = 9 THEN 3
                            ELSE IF level = 1 THEN 0
                            ELSE IF level \in {6, Z_DEFAULT_COMPRESSION} THEN 1
                            ELSE 2)

\* C20: the top two bits of the second byte of the zlib header are 3 for
\* level 9, 0 for level 1, 1 for the levels 6, 7, 8 and the default, 2 for the
\* levels 0, 2, 3, 4, 5; and the two bytes as a big-endian number are a
\* multiple of 31
C20_LevelBits ==
    (form = 1 /\ ppc # "header") =>
        /\ wire[2] \div 64 = (IF level = 9 THEN 3
                               ELSE IF level = 1 THEN 0
                               ELSE IF level \in {6, 7, 8, Z_DEFAULT_COMPRESSION} THEN 1
                               ELSE 2)
        /\ (wire[1] * 256 + wire[2]) % 31 = 0

\* the zlib header of level 7 has been written
C20_Witness == form = 1 /\ ppc # "header" /\ level = 7 /\ wire[2] \div 64 = 1

\* C21: for every level the zlib header is two bytes, the first is 0x78,
\* the two as a big-endian number are a multiple of 31, and the second byte
\* is the level bits in its top two bits plus an adjustment of less than 32:
\* bit 5, the preset dictionary bit, is 0
C21_ZlibHeader ==
    (form = 1 /\ ppc = "trailer") =>
        /\ Len(wire) = 2
        /\ wire[1] = 120
        /\ (wire[1] * 256 + wire[2]) % 31 = 0
        /\ wire[2] - 64 * zlib_level_bits(level) \in 0..31
        /\ (wire[2] \div 32) % 2 = 0

\* the zlib header of level 9 has been written: 78 DA
C21_Witness == form = 1 /\ ppc = "trailer" /\ level = 9 /\ wire = <<120, 218>>

\* C22: the gzip header is 1F 8B 08, FLG = 8 if a name is stored and else 0,
\* mtime in 4 little-endian bytes, XFL = 2 for level 9, 4 for level 1 and
\* else 0, OS = 3, then the name and a zero byte iff a name is stored; the
\* length returned is the number of bytes written
C22_GzipHeader ==
    (form = 0 /\ ppc = "trailer") =>
        /\ SubSeq(wire, 1, 3) = <<31, 139, 8>>
        /\ wire[4] = (IF name = << >> THEN 0 ELSE 8)
        /\ \A k \in 0..3 : wire[5 + k] = LittleEndian(mtime, k)
        /\ wire[9] = (IF level = 9 THEN 2 ELSE IF level = 1 THEN 4 ELSE 0)
        /\ wire[10] = 3
        /\ name = << >> => Len(wire) = 10
        /\ name # << >> =>
            /\ Len(wire) = 10 + Len(name[1]) + 1
            /\ SubSeq(wire, 11, Len(wire) - 1) = name[1]
            /\ wire[Len(wire)] = 0
        /\ trail.head = Word(Len(wire))

\* the gzip header of level 1 with the name "ab" and a time of more than 32
\* bits has been written
C22_Witness ==
    /\ form = 0 /\ ppc = "trailer" /\ level = 1
    /\ name = << <<97, 98>> >> /\ mtime = {3, 31, 33}
    /\ wire = <<31, 139, 8, 8, 8, 0, 0, 128, 4, 3, 97, 98, 0>>

\* the two bytes at offset k (from 0) of the zip output as a number, and the
\* four bytes there
Field2(k) == wire[k + 1] + 256 * wire[k + 2]
Field4(k) == SubSeq(wire, k + 1, k + 4)

\* the four little-endian bytes of (a + clen) modulo 2^32, computed in
\* halves of 16 bits
OffsetBytes(a, cl) ==
    LET lo == Value(cl \cap LOW16) + a
        hi == (Value(Shr(cl, 16) \cap LOW16) + (lo \div 65536)) % 65536
    IN  <<lo % 256, (lo \div 256) % 256, hi % 256, hi \div 256>>

\* C23: in the zip output the name length is the same (1 for "-" when no
\* name is set) in the local header and in the central header, and the name
\* follows both; the central file header starts 30 + name length + 9 + 12
\* bytes into what put_header and put_trailer write; the end of central
\* directory record holds 46 + name length + 9 as size of the central
\* directory and, as its offset, the bytes written before the central file
\* header (those and the compressed data) modulo 2^32
C23_ZipOffsets ==
    (form = 2 /\ ppc = "done") =>
        LET nl == IF name = << >> THEN 1 ELSE Len(name[1])
            nm == IF name = << >> THEN <<45>> ELSE name[1]
            cent == 30 + nl + 9 + 12
            eocd == cent + 46 + nl + 9
        IN  /\ Len(wire) = eocd + 22
            /\ trail.head = Word(30 + nl + 9)
            /\ Field4(0) = <<80, 75, 3, 4>>
            /\ Field2(26) = nl
            /\ SubSeq(wire, 31, 30 + nl) = nm
            /\ Field4(cent) = <<80, 75, 1, 2>>
            /\ Field2(cent + 28) = nl
            /\ SubSeq(wire, cent + 47, cent + 46 + nl) = nm
            /\ Field4(eocd) = <<80, 75, 5, 6>>
            /\ Field4(eocd + 12) = <<46 + nl + 9, 0, 0, 0>>
            /\ Field4(eocd + 16) = OffsetBytes(cent, trail.clen)

\* a zip entry with the name "ab" and a compressed length of 2^32 - 20 has
\* been written: the offset of the central directory wraps round to 33
C23_Witness ==
    /\ form = 2 /\ ppc = "done"
    /\ name = << <<97, 98>> >>
    /\ trail.clen = (0..31) \ {0, 1, 4}
    /\ Field4(Len(wire) - 6) = <<33, 0, 0, 0>>

(***************************************************************************)
(* single_gzip (pigz.c:988-1048): the path process takes when procs is 1   *)
(* (pigz.c:2229-2233).  It uses jobs[0], ind and outd; its locals got,     *)
(* head, ulen, clen and check are held in the variables of the same names. *)
(* The inner loops on a full output buffer are taken as one call of        *)
(* deflate that writes all it has.                                         *)
(***************************************************************************)
Z_NO_FLUSH == "Z_NO_FLUSH"
Z_FULL_FLUSH == "Z_FULL_FLUSH"

\* the number of bytes one turn of the outer loop writes (zlib; as in
\* deflate_count a stored block, and the empty stored block of a full flush)
single_count(len, flush) == len + 5 + (IF flush = Z_FULL_FLUSH THEN 5 ELSE 0)

\* line 998: head = put_header()
SingleHeader ==
    /\ spc = "header"
    /\ sink' = Append(sink, [kind |-> "header", form |-> form])
    /\ head' = put_header
    /\ spc' = "init"
    /\ UNCHANGED <<config, inpos, jobs, thr, rpc, n, got, wpc, wn, wlen,
                   ulen, clen, check, cvars, ovars, pvars, hvars, first, MAX, evars, dvars>>

\* the deflate state after deflateReset, with where next_in points in
\* jobs->buf and the total_in that zlib keeps
reset == [dictionary |-> << >>, next_out |-> 0, next_in |-> 0, total_in |-> 0]

\* lines 1001-1009: jobs_new, job_init of jobs[0], deflateReset,
\* ulen = clen = 0, check = CHECK(0L, Z_NULL, 0)
SingleInit ==
    /\ spc = "init"
    /\ jobs' = [jobs_new EXCEPT ![0] =
                   [(IF @.buf = NULL THEN job_init(@) ELSE @) EXCEPT !.strm = reset]]
    /\ ulen' = 0 /\ clen' = 0
    /\ check' = CHECK0(form)
    /\ spc' = "read"
    /\ UNCHANGED <<config, inpos, thr, rpc, n, got, wpc, wn, wlen, head, sink,
                   cvars, ovars, pvars, hvars, first, MAX, evars, dvars>>

\* lines 1012-1014 with a deflateReset(strm) at the head of the loop
SingleRead_Reset ==
    /\ spc = "read"
    /\ got' = readn(size)
    /\ jobs' = [jobs EXCEPT ![0].buf =
                   [i \in 1..size |-> IF i <= got' THEN input[inpos + i] ELSE @[i]],
                            ![0].strm = reset]
    /\ inpos' = inpos + got'
    /\ ulen' = ulen + got'
    /\ spc' = "deflate"
    /\ UNCHANGED <<config, thr, rpc, n, wpc, wn, wlen, head, clen, check, sink,
                   cvars, ovars, pvars, hvars, first, MAX, evars, dvars>>

\* lines 1012-1014: got = readn(ind, jobs->buf, size), ulen += got,
\* strm->next_in = jobs->buf
SingleRead ==
    /\ spc = "read"
    /\ got' = readn(size)
    /\ jobs' = [jobs EXCEPT ![0].buf =
                   [i \in 1..size |-> IF i <= got' THEN input[inpos + i] ELSE @[i]],
                            ![0].strm.next_in = 0]
    /\ inpos' = inpos + got'
    /\ ulen' = ulen + got'
    /\ spc' = "deflate"
    /\ UNCHANGED <<config, thr, rpc, n, wpc, wn, wlen, head, clen, check, sink,
                   cvars, ovars, pvars, hvars, first, MAX, evars, dvars>>

\* lines 1017-1029: while got > MAX, the check and the deflate of MAX bytes
\* with Z_NO_FLUSH, the output written, clen, and got -= MAX
SingleMax ==
    /\ spc = "deflate"
    /\ got > MAX
    /\ \E data \in ReadBytes(jobs[0].buf, jobs[0].strm.next_in, MAX) :
         /\ check' = CHECK(form, check, data)
         /\ sink' = Append(sink, [kind |-> "block", seq |-> Len(sink) - 1,
                                  data |-> data, dictionary |-> << >>,
                                  flush |-> Z_NO_FLUSH])
         /\ clen' = clen + single_count(MAX, Z_NO_FLUSH)
    /\ jobs' = [jobs EXCEPT ![0].strm.next_in = @ + MAX,
                            ![0].strm.total_in = @ + MAX]
    /\ got' = got - MAX
    /\ UNCHANGED <<config, inpos, thr, rpc, n, wpc, wn, wlen, head, ulen,
                   cvars, ovars, pvars, hvars, svars, evars, dvars>>

\* lines 1031-1044 with Z_NO_FLUSH for dict ? Z_NO_FLUSH : Z_FULL_FLUSH
SingleDeflate_NoFlush ==
    /\ spc = "deflate"
    /\ got <= MAX
    /\ LET flush == IF got < size THEN Z_FINISH ELSE Z_NO_FLUSH
       IN \E data \in ReadBytes(jobs[0].buf, jobs[0].strm.next_in, got) :
            /\ check' = IF got # 0 THEN CHECK(form, check, data) ELSE check
            /\ sink' = Append(sink, [kind |-> "block", seq |-> Len(sink) - 1,
                                     data |-> data, dictionary |-> << >>,
                                     flush |-> flush])
            /\ clen' = clen + single_count(got, flush)
    /\ jobs' = [jobs EXCEPT ![0].strm.next_in = @ + got,
                            ![0].strm.total_in = @ + got]
    /\ spc' = IF got = size THEN "read" ELSE "trailer"
    /\ UNCHANGED <<config, inpos, thr, rpc, n, got, wpc, wn, wlen, head, ulen,
                   cvars, ovars, pvars, hvars, first, MAX, evars, dvars>>

\* lines 1031-1044, reached with got <= MAX: the check of the got bytes if
\* there are any, deflate of them (finishing if got < size), the output
\* written, clen, the loop test
SingleDeflate ==
    /\ spc = "deflate"
    /\ got <= MAX
    /\ LET flush == IF got < size THEN Z_FINISH
                    ELSE IF dict THEN Z_NO_FLUSH ELSE Z_FULL_FLUSH
       IN \E data \in ReadBytes(jobs[0].buf, jobs[0].strm.next_in, got) :
            /\ check' = IF got # 0 THEN CHECK(form, check, data) ELSE check
            /\ sink' = Append(sink, [kind |-> "block", seq |-> Len(sink) - 1,
                                     data |-> data, dictionary |-> << >>,
                                     flush |-> flush])
            /\ clen' = clen + single_count(got, flush)
    /\ jobs' = [jobs EXCEPT ![0].strm.next_in = @ + got,
                            ![0].strm.total_in = @ + got]
    /\ spc' = IF got = size THEN "read" ELSE "trailer"
    /\ UNCHANGED <<config, inpos, thr, rpc, n, got, wpc, wn, wlen, head, ulen,
                   cvars, ovars, pvars, hvars, first, MAX, evars, dvars>>

\* line 1047: put_trailer(ulen, clen, check, head)
SingleTrailer ==
    /\ spc = "trailer"
    /\ sink' = Append(sink, [kind |-> "trailer", ulen |-> ulen, clen |-> clen,
                             check |-> check, head |-> head])
    /\ spc' = "done"
    /\ UNCHANGED <<config, inpos, jobs, thr, rpc, n, got, wpc, wn, wlen, head,
                   ulen, clen, check, cvars, ovars, pvars, hvars, first, MAX, evars, dvars>>

Single == SingleHeader \/ SingleInit \/ SingleRead \/ SingleDeflate \/ SingleTrailer

\* main (pigz.c:2448-2451, 2516-2521) and process (pigz.c:2229-2233) when
\* the same input is named again after the option -p 1: jobs_free, procs = 1,
\* the input opened anew, and single_gzip called.  What the first run wrote is
\* kept in first and the output starts empty again.
Rerun ==
    /\ rpc = "done"
    /\ procs' = 1
    /\ jobs' = << >> /\ thr' = << >>
    /\ inpos' = 0
    /\ first' = sink /\ sink' = << >>
    /\ rpc' = "none" /\ wpc' = "none"
    /\ spc' = "header"
    /\ UNCHANGED <<dict, form, input, n, got, wn, wlen, head, ulen, clen, check,
                   MAX, cvars, ovars, pvars, hvars, evars, dvars>>

EquivNext == Next \/ Rerun \/ Single

\* the pipeline, then the serial path on the same input
EquivSpec == Init /\ [][EquivNext]_vars

\* C13: for every input and both formats, the pipeline (procs >= 2) and
\* single_gzip (procs = 1) write the same header, the same trailer check
\* value and the same uncompressed length
C13_SameHeaderTrailer ==
    (spc = "done" /\ first # << >>) =>
        LET t1 == first[Len(first)]
            t2 == sink[Len(sink)]
        IN /\ first[1] = sink[1]
           /\ t1.head = t2.head
           /\ t1.check = t2.check
           /\ t1.ulen = t2.ulen

(***************************************************************************)
(* Failing reads and writes, and bail (pigz.c:342-350, 471-502).           *)
(***************************************************************************)
\* bail(why, what): unlink(out) if out is not NULL, the diagnostic if
\* verbosity > 0, exit(1)
bail(why, what) ==
    /\ files' = IF out # NullName THEN files \ {out} ELSE files
    /\ stderr' = IF verbosity > 0
                   THEN Append(stderr, [why |-> why, what |-> what])
                   ELSE stderr
    /\ status' = <<1>>

\* exit ends every thread of the process: none is left at a position from
\* which it steps, and none is left blocked on a flag
exit_threads ==
    /\ rpc' = "exit" /\ wpc' = "exit" /\ spc' = "exit"
    /\ thr' = [id \in DOMAIN thr |-> [thr[id] EXCEPT !.pc = "exit"]]
    /\ jobs' = [k \in DOMAIN jobs |-> [jobs[k] EXCEPT !.busy.cond = {}]]

\* readn, line 479: read returns less than 0 in read_thread
ReaderReadFail ==
    /\ rpc = "read"
    /\ rpc' = "read_error"
    /\ UNCHANGED <<config, elsewhere, jobs, thr, n, got, inpos, wvars>>

\* writen, line 497: write returns less than 1 in write_thread, in
\* put_header, in the write of a unit's output or in put_trailer
WriterWriteFail ==
    /\ wpc \in {"header", "write", "trailer"}
    /\ wpc' = "write_error"
    /\ UNCHANGED <<config, elsewhere, jobs, thr, rvars, wn, wlen, head, ulen, clen, check, sink>>

\* the same in single_gzip: readn at line 1012, writen in put_header, at
\* line 1039 and in put_trailer
SingleFail ==
    /\ spc \in {"header", "read", "deflate", "trailer"}
    /\ spc' = IF spc = "read" THEN "read_error" ELSE "write_error"
    /\ UNCHANGED <<config, pipeline, cvars, ovars, pvars, hvars, first, MAX, evars, dvars>>

\* the read thread, the write thread or single_gzip is in bail
InBail == {t \in {"read", "write", "single"} :
              \/ t = "read" /\ rpc = "read_error"
              \/ t = "write" /\ wpc = "write_error"
              \/ t = "single" /\ spc \in {"read_error", "write_error"}}

\* bail that waits until the write thread is through before it exits
Bail_WaitsForWriter ==
    /\ \E t \in InBail :
          IF t = "read" \/ (t = "single" /\ spc = "read_error")
            THEN bail("read error on ", InName)
            ELSE bail("write error on ", out)
    /\ wpc \in {"none", "done", "write_error"}
    /\ exit_threads
    /\ UNCHANGED <<config, inpos, n, got, wn, wlen, head, ulen, clen, check, sink,
                   cvars, ovars, pvars, hvars, first, MAX, out, verbosity, dvars>>

\* lines 480 and 498: a thread that has a failed read or write goes through
\* bail, and the process ends
Bail ==
    /\ \E t \in InBail :
          IF t = "read" \/ (t = "single" /\ spc = "read_error")
            THEN bail("read error on ", InName)
            ELSE bail("write error on ", out)
    /\ exit_threads
    /\ UNCHANGED <<config, inpos, n, got, wn, wlen, head, ulen, clen, check, sink,
                   cvars, ovars, pvars, hvars, first, MAX, out, verbosity, dvars>>

\* a compressing process with any number of threads, writing to a file or
\* to standard output (pigz.c:2156, 2176), quiet or not.  No step reads form
\* or dict except to choose a check function and a dictionary, so gzip with
\* dict set is taken
FailInit ==
    /\ procs \in 1..MaxProcs
    /\ dict = TRUE /\ form = 0
    /\ input \in Inputs
    /\ inpos = 0 /\ jobs = << >> /\ thr = << >>
    /\ rpc = (IF procs > 1 THEN "start" ELSE "none") /\ n = 0 /\ got = 0
    /\ wpc = "none" /\ wn = 0 /\ wlen = 0 /\ head = 0
    /\ ulen = 0 /\ clen = 0 /\ check = {}
    /\ sink = << >>
    /\ spc = (IF procs > 1 THEN "none" ELSE "header") /\ first = << >> /\ MAX = size
    /\ \E c \in {<<OutName, 1>>, <<OutName, 0>>, <<"<stdout>", 1>>} :
          out = c[1] /\ verbosity = c[2]
    /\ files = {InName} \cup ({out} \ {"<stdout>"})
    /\ stderr = << >> /\ status = << >>
    /\ CombIdle /\ PutIdle /\ DecIdle /\ OptIdle /\ ProcIdle

FailNext == Next \/ Single \/ ReaderReadFail \/ WriterWriteFail \/ SingleFail \/ Bail

FailSpec == FailInit /\ [][FailNext]_vars

\* a trailer is in the output
TrailerWritten == \E i \in DOMAIN sink : sink[i].kind = "trailer"

\* C16: when the output is a file and verbosity is at least 1, then after a
\* read or write has failed in read_thread, write_thread or single_gzip, the
\* process can exit whatever the other threads are doing; no trailer is
\* written from then on; the process does not come out of the failure other
\* than by the exit; and when it has exited the status is 1, the output file
\* is unlinked and the diagnostic is on standard error
C16_FatalIO ==
    /\ [](InBail # {} => ENABLED Bail)
    /\ [][(InBail # {} \/ status # << >>) =>
             /\ (TrailerWritten' => TrailerWritten)
             /\ (InBail' # {} \/ status' = <<1>>)]_vars
    /\ []((status # << >> /\ out = OutName /\ verbosity >= 1) =>
             /\ status = <<1>>
             /\ OutName \notin files
             /\ Len(stderr) >= 1
             /\ stderr[1].why \in {"read error on ", "write error on "}
             /\ ~ENABLED FailNext)

\* the write thread has failed on the output of the second block while the
\* read thread is blocked and a compress thread runs, and the process has
\* exited from there
C16_Witness ==
    /\ status = <<1>> /\ procs = 2 /\ out = OutName /\ verbosity = 1
    /\ Len(sink) = 2 /\ Len(thr) = 3
    /\ stderr = <<[why |-> "write error on ", what |-> OutName]>>

(***************************************************************************)
(* Decompression: the buffered reading macros, get_header, outb and its    *)
(* check thread, and infchk.  The compressed input is the sequence input;  *)
(* inpos is the number of its items consumed (in_buf, in_next and in_left  *)
(* are one window on it).  An item of input is a byte, or a negative       *)
(* number that stands for one whole deflate stream (inflateBack takes it   *)
(* in as one piece).                                                       *)
(***************************************************************************)

\* the largest number of decompressed bytes of one deflate stream
MaxData == 3

\* what GET gives at the end of the input
EOF == -1
\* a value read by GET2 or GET4 across the end of the input: the sum of
\* wrapped-around words, which is never zero and larger than any length
Garbage == 2^20
GarbageWord == {20}

\* the deflate stream that decompresses to l bytes, and ends well or not
BodyCode(l, ok) == 0 - (1 + 2 * l + (IF ok THEN 0 ELSE 1))
IsBody(x) == x < 0
DataOf(l) == [i \in 1..l |-> IF i % 2 = 0 THEN 255 ELSE 0]
BodyOf(x) ==
    LET c == (0 - x) - 1
    IN  [data |-> DataOf(c \div 2), ok |-> c % 2 = 0,
         clen |-> deflate_count(c \div 2, Z_FINISH)]

\* a reading position: pos items consumed, eof the value of in_eof
At(pos, eof) == [pos |-> pos, eof |-> eof]

\* GET(): EOF once in_eof is set or nothing is left, else the next byte
GET(s) == Strict(s, LAMBDA x :
    IF x.eof \/ x.pos >= Len(input)
    THEN [v |-> EOF, s |-> At(x.pos, TRUE)]
    ELSE [v |-> input[x.pos + 1], s |-> At(x.pos + 1, x.eof)])

\* GET2(): two bytes, low byte first
GET2(s) ==
    Strict(GET(s), LAMBDA a :
    Strict(GET(a.s), LAMBDA b :
        [v |-> IF b.s.eof THEN Garbage ELSE a.v + 256 * b.v, s |-> b.s]))

\* GET4(): four bytes, low byte first, as a word
GET4(s) ==
    Strict(GET2(s), LAMBDA a :
    Strict(GET2(a.s), LAMBDA b :
        [v |-> IF b.s.eof THEN GarbageWord
               ELSE Word(a.v) \cup Shl(Word(b.v), 16),
         s |-> b.s]))

\* SKIP(dist): ok is FALSE where the macro returns -1 from its function
SKIP(s, dist) == Strict(<<s, dist>>, LAMBDA x :
    IF x[2] <= Len(input) - x[1].pos /\ (x[2] = 0 \/ ~x[1].eof)
    THEN [ok |-> TRUE, s |-> At(x[1].pos + x[2], x[1].eof)]
    ELSE [ok |-> FALSE, s |-> At(Len(input), TRUE)])

\* while (GET() != 0) if (in_eof) return -3: the position after the next
\* zero byte, or the end of the input with in_eof set
SkipString(s) == Strict(s, LAMBDA x :
    LET zeros == {i \in (x.pos + 1)..Len(input) : input[i] = 0}
    IN  IF x.eof \/ zeros = {}
        THEN At(Len(input), TRUE)
        ELSE At(CHOOSE i \in zeros : \A j \in zeros : i <= j, x.eof))

\* read_extra(len, 0), whose result get_header ignores: the position it
\* leaves.  The Zip64 block (id 0x0001) replaces a length only where the
\* local header holds 0xffffffff, which no input of this model does
RECURSIVE read_extra(_, _)
read_extra(s, len) ==
    IF len >= 4
    THEN LET id == GET2(s)
             sz == GET2(id.s)
         IN  IF sz.s.eof THEN sz.s
             ELSE IF sz.v > len - 4 THEN SKIP(sz.s, len - 4).s
             ELSE LET k == SKIP(sz.s, sz.v)
                  IN  IF ~k.ok THEN k.s
                      ELSE read_extra(k.s, (len - 4) - sz.v)
    ELSE SKIP(s, len).s

\* what get_header returns and leaves behind
Hdr(r, f, s, z) == [ret |-> r, form |-> f, s |-> s, zip |-> z]

\* get_header, gzip: the header crc
gzip_hcrc(s, method, flags) ==
    IF (flags \div 2) % 2 = 1
    THEN LET k == SKIP(s, 2)
         IN  IF ~k.ok THEN Hdr(-1, 0, k.s, zip) ELSE Hdr(method, 0, k.s, zip)
    ELSE Hdr(method, 0, s, zip)

\* get_header, gzip: the comment
gzip_comment(s, method, flags) ==
    IF (flags \div 16) % 2 = 1
    THEN LET z == SkipString(s)
         IN  IF z.eof THEN Hdr(-3, 0, z, zip)
             ELSE gzip_hcrc(z, method, flags)
    ELSE gzip_hcrc(s, method, flags)

\* get_header, gzip: the file name (save is 0)
gzip_name(s, method, flags) ==
    IF (flags \div 8) % 2 = 1
    THEN LET z == SkipString(s)
         IN  IF z.eof THEN Hdr(-3, 0, z, zip)
             ELSE gzip_comment(z, method, flags)
    ELSE gzip_comment(s, method, flags)

\* get_header, gzip: the extra field
gzip_extra(s, method, flags) ==
    IF (flags \div 4) % 2 = 1
    THEN LET e == GET2(s)
         IN  IF e.s.eof THEN Hdr(-3, 0, e.s, zip)
             ELSE LET k == SKIP(e.s, e.v)
                  IN  IF ~k.ok THEN Hdr(-1, 0, k.s, zip)
                      ELSE gzip_name(k.s, method, flags)
    ELSE gzip_name(s, method, flags)

\* get_header, after the gzip magic
gzip_header(s) ==
    LET m == GET(s)
        f == GET(m.s)
    IN  IF f.s.eof THEN Hdr(-1, 0, f.s, zip)
        ELSE IF (f.v \div 32) % 8 # 0 THEN Hdr(-4, 0, f.s, zip)
        ELSE LET k1 == SKIP(f.s, 4)
             IN  IF ~k1.ok THEN Hdr(-1, 0, k1.s, zip)
                 ELSE LET k2 == SKIP(k1.s, 2)
                      IN  IF ~k2.ok THEN Hdr(-1, 0, k2.s, zip)
                          ELSE gzip_extra(k2.s, m.v, f.v)

\* get_header, zip: from the time stamp on
zip_fields(s, method, flags) ==
    LET k == SKIP(s, 4)
    IN  IF ~k.ok THEN Hdr(-1, 0, k.s, zip)
        ELSE LET c == GET4(k.s)
                 cl == GET4(c.s)
                 ul == GET4(cl.s)
                 fname == GET2(ul.s)
                 extra == GET2(fname.s)
                 z == [crc |-> c.v, clen |-> cl.v, ulen |-> ul.v]
                 nm == SKIP(extra.s, fname.v)
             IN  IF ~nm.ok THEN Hdr(-1, 0, nm.s, z)
                 ELSE LET x == read_extra(nm.s, extra.v)
                      IN  Hdr(IF x.eof THEN -3 ELSE method,
                              2 + ((flags \div 8) % 2), x, z)

\* get_header, after the zip magic
zip_header(s) ==
    LET a == GET(s)
        b == GET(a.s)
    IN  IF a.v # 3 THEN Hdr(-3, 0, a.s, zip)
        ELSE IF b.v # 4 THEN Hdr(-3, 0, b.s, zip)
        ELSE LET k == SKIP(b.s, 2)
             IN  IF ~k.ok THEN Hdr(-1, 0, k.s, zip)
                 ELSE LET fl == GET2(k.s)
                          me == GET2(fl.s)
                      IN  IF fl.s.eof THEN Hdr(-3, 0, fl.s, zip)
                          ELSE IF fl.v \div 16 # 0 THEN Hdr(-4, 0, fl.s, zip)
                          ELSE IF me.s.eof THEN Hdr(-3, 0, me.s, zip)
                          ELSE zip_fields(me.s,
                                   IF fl.v % 2 = 1 THEN 255 ELSE me.v, fl.v)

\* get_header(0) read at position s: the value returned, the form set, the
\* position left and the zip fields left
get_header(s) ==
    LET a == GET(s)
        b == GET(a.s)
        magic == 256 * a.v + b.v
    IN  IF a.s.eof THEN Hdr(-1, 0, a.s, zip)
        ELSE IF b.s.eof THEN Hdr(-2, 0, b.s, zip)
        ELSE IF magic % 31 = 0 THEN Hdr((magic \div 256) % 16, 1, b.s, zip)
        ELSE IF magic = 8093 THEN Hdr(256, 0, b.s, zip)
        ELSE IF magic = 20555 THEN zip_header(b.s)
        ELSE IF magic # 8075 THEN Hdr(-2, 0, b.s, zip)
        ELSE gzip_header(b.s)

\* Z_STREAM_END and Z_DATA_ERROR of zlib, as infchk sees them at line 1639
Z_STREAM_END == 1
Z_DATA_ERROR == -3

\* 0x08074b50, the signature of the info-zip data descriptor (line 1660)
ZIPSIG == {4, 6, 8, 9, 11, 14, 16, 17, 18, 27}

\* what the trailer check of infchk leaves: why is "" if it passes, else the
\* message it bails with
Checked(why, s, z, c, l) ==
    [why |-> why, s |-> s, zip |-> z, check |-> c, len |-> l]

\* lines 1675-1677: the lengths of the zip entry z against what was counted,
\* with the input at e
zip_lengths(z, e) ==
    IF z.clen # Word(clen) \/ z.ulen # Word(out_tot)
    THEN Checked("corrupted zip entry -- length mismatch: ", e, z, check, ilen)
    ELSE Checked("", e, z, z.crc, ilen)

\* lines 1667-1673: if the second length doesn't match, try 64-bit lengths
zip_long(z, s) ==
    IF z.ulen # Word(out_tot)
    THEN Strict(GET4(s), LAMBDA u :
         Strict(GET4(u.s), LAMBDA hi :
             IF hi.s.eof
             THEN Checked("corrupted zip entry -- missing trailer: ", hi.s,
                          [z EXCEPT !.ulen = u.v], check, ilen)
             ELSE zip_lengths([z EXCEPT !.ulen = u.v], hi.s)))
    ELSE IF s.eof
    THEN Checked("corrupted zip entry -- missing trailer: ", s, z, check, ilen)
    ELSE zip_lengths(z, s)

\* lines 1651-1665: the data descriptor, in its original version or in the
\* info-zip variant with a signature
zip_descriptor(s) ==
    Strict(GET4(s), LAMBDA c :
    Strict(GET4(c.s), LAMBDA cl :
    Strict(GET4(cl.s), LAMBDA ul :
        IF ul.s.eof
        THEN Checked("corrupted zip entry -- missing trailer: ", ul.s,
                     [crc |-> c.v, clen |-> cl.v, ulen |-> ul.v], check, ilen)
        ELSE IF c.v # out_check
        THEN IF c.v # ZIPSIG \/ cl.v # out_check
             THEN Checked("corrupted zip entry -- crc32 mismatch: ", ul.s,
                          [crc |-> c.v, clen |-> cl.v, ulen |-> ul.v],
                          check, ilen)
             ELSE Strict(GET4(ul.s), LAMBDA ul2 :
                      zip_long([crc |-> cl.v, clen |-> ul.v, ulen |-> ul2.v],
                               ul2.s))
        ELSE zip_long([crc |-> c.v, clen |-> cl.v, ulen |-> ul.v], ul.s))))

\* lines 1649-1678: the zip trailer
zip_trailer(s) ==
    IF form = 3 THEN zip_descriptor(s) ELSE zip_lengths(zip, s)

\* lines 1680-1687: the zlib trailer.  GET() << 24 shifts an int: for a byte
\* of 128 or more the result does not fit, and the build decides what the
\* unsigned long check receives: the 32-bit word, or with a long of 64 bits
\* its sign extension (wide)
zlib_trailer(s, wide) ==
    LET b1 == GET(s)
        b2 == GET(b1.s)
        b3 == GET(b2.s)
        b4 == GET(b3.s)
        c == Shl(Word(b1.v), 24) \cup Shl(Word(b2.v), 16)
               \cup Shl(Word(b3.v), 8) \cup Word(b4.v)
               \cup (IF wide /\ b1.v >= 128 THEN 32..63 ELSE {})
    IN  IF b4.s.eof
        THEN Checked("corrupted zlib stream -- missing trailer: ", b4.s, zip,
                     check, ilen)
        ELSE IF c # out_check
        THEN Checked("corrupted zlib stream -- adler32 mismatch: ", b4.s, zip,
                     c, ilen)
        ELSE Checked("", b4.s, zip, c, ilen)

\* lines 1690-1697 without the test of the length at lines 1696-1697
gzip_trailer_NoLength(s) ==
    Strict(GET4(s), LAMBDA c :
    Strict(GET4(c.s), LAMBDA l :
        IF l.s.eof
        THEN Checked("corrupted gzip stream -- missing trailer: ", l.s, zip,
                     c.v, l.v)
        ELSE IF c.v # out_check
        THEN Checked("corrupted gzip stream -- crc32 mismatch: ", l.s, zip,
                     c.v, l.v)
        ELSE Checked("", l.s, zip, c.v, l.v)))

\* lines 1690-1697: the gzip trailer
gzip_trailer(s) ==
    Strict(GET4(s), LAMBDA c :
    Strict(GET4(c.s), LAMBDA l :
        IF l.s.eof
        THEN Checked("corrupted gzip stream -- missing trailer: ", l.s, zip,
                     c.v, l.v)
        ELSE IF c.v # out_check
        THEN Checked("corrupted gzip stream -- crc32 mismatch: ", l.s, zip,
                     c.v, l.v)
        ELSE IF l.v # Word(out_tot)
        THEN Checked("corrupted gzip stream -- length mismatch: ", l.s, zip,
                     c.v, l.v)
        ELSE Checked("", l.s, zip, c.v, l.v)))

\* lines 1648-1698
trailer(s, wide) ==
    IF form > 1 THEN zip_trailer(s)
    ELSE IF form = 1 THEN zlib_trailer(s, wide)
    ELSE gzip_trailer(s)

\* what no step of decompression changes
dconst == <<procs, dict, input, jobs, thr, rpc, n, got, wpc, wn, wlen, head,
            ulen, cvars, ovars, pvars, hvars, svars, decode, out, verbosity>>

\* the deflate stream inflateBack is given, if the input holds one there
HasBody == strm.at <= Len(input) /\ IsBody(input[strm.at])
Body == BodyOf(input[strm.at])

\* the first len bytes of the buffer a check or a write is given
Chunk(len) == SubSeq(outbuf, 1, len)

\* lines 1625-1637: header already read, set up for decompression
InfInit ==
    /\ ipc = "init"
    /\ out_tot' = 0
    /\ out_check' = CHECK0(form)
    /\ strm' = [at |-> inpos + 1, pos |-> 0, form |-> form]
    /\ ipc' = "inflate"
    /\ UNCHANGED <<dconst, form, inpos, sink, check, clen, files, stderr,
                   status, in_eof, zip, ret, ilen, outbuf, opc, olen, work,
                   cthr>>

\* line 1638, inflateBack: the window is full, or the stream has ended with
\* a part of it filled, and the output function is called with it
InflateOut ==
    /\ ipc = "inflate" /\ opc = "idle"
    /\ HasBody /\ strm.pos < Len(Body.data)
    /\ LET k == IF Len(Body.data) - strm.pos < OUTSIZE
                THEN Len(Body.data) - strm.pos ELSE OUTSIZE
       IN  /\ outbuf' = [i \in 1..OUTSIZE |->
                           IF i <= k THEN Body.data[strm.pos + i]
                           ELSE outbuf[i]]
           /\ olen' = k
           /\ strm' = [strm EXCEPT !.pos = @ + k]
    /\ opc' = "start"
    /\ UNCHANGED <<dconst, form, inpos, sink, check, clen, files, stderr,
                   status, in_eof, out_tot, out_check, zip, ipc, ret, ilen,
                   work, cthr>>

\* lines 1585-1593 of outb: count, and start the check thread or compute
\* the check here
OutbStart ==
    /\ opc = "start"
    /\ out_tot' = out_tot + olen
    /\ IF procs > 1
       THEN /\ work' = [check |-> out_check, len |-> olen]
            /\ cthr' = Append(cthr, [pc |-> "run"])
            /\ UNCHANGED out_check
       ELSE /\ out_check' = CHECK(form, out_check, Chunk(olen))
            /\ UNCHANGED <<work, cthr>>
    /\ opc' = "write"
    /\ UNCHANGED <<dconst, form, inpos, sink, check, clen, files, stderr,
                   status, in_eof, zip, ipc, ret, ilen, strm, outbuf, olen>>

\* lines 1571-1577, run_check: the check of the buffer as it is when the
\* thread runs
RunCheck ==
    /\ \E id \in DOMAIN cthr :
        /\ cthr[id].pc = "run"
        /\ work' = [work EXCEPT !.check = CHECK(form, @, Chunk(work.len))]
        /\ cthr' = [cthr EXCEPT ![id].pc = "done"]
    /\ UNCHANGED <<dconst, form, inpos, sink, check, clen, files, stderr,
                   status, in_eof, out_tot, out_check, zip, ipc, ret, ilen,
                   strm, outbuf, opc, olen>>

\* lines 1594-1595 of outb
OutbWrite ==
    /\ opc = "write"
    /\ sink' = IF decode = 1 THEN Append(sink, Chunk(olen)) ELSE sink
    /\ opc' = "join"
    /\ UNCHANGED <<dconst, form, inpos, check, clen, files, stderr, status,
                   in_eof, out_tot, out_check, zip, ipc, ret, ilen, strm,
                   outbuf, olen, work, cthr>>

\* lines 1596-1600 of outb, without the wait of pthread_join
OutbJoin_NoWait ==
    /\ opc = "join"
    /\ IF procs > 1
       THEN /\ cthr' = [cthr EXCEPT ![Len(cthr)].pc =
                           IF @ = "done" THEN "joined" ELSE @]
            /\ out_check' = work.check
       ELSE UNCHANGED <<cthr, out_check>>
    /\ opc' = "idle"
    /\ UNCHANGED <<dconst, form, inpos, sink, check, clen, files, stderr,
                   status, in_eof, out_tot, zip, ipc, ret, ilen, strm,
                   outbuf, olen, work>>

\* lines 1596-1600 of outb: join the check thread and take its result
OutbJoin ==
    /\ opc = "join"
    /\ IF procs > 1
       THEN /\ cthr[Len(cthr)].pc = "done"
            /\ cthr' = [cthr EXCEPT ![Len(cthr)].pc = "joined"]
            /\ out_check' = work.check
       ELSE UNCHANGED <<cthr, out_check>>
    /\ opc' = "idle"
    /\ UNCHANGED <<dconst, form, inpos, sink, check, clen, files, stderr,
                   status, in_eof, out_tot, zip, ipc, ret, ilen, strm,
                   outbuf, olen, work>>

\* line 1638, inflateBack returns: Z_STREAM_END at the end of a deflate
\* stream, an error for one that ends badly or for input that is none
InflateEnd ==
    /\ ipc = "inflate" /\ opc = "idle"
    /\ HasBody => strm.pos = Len(Body.data)
    /\ ret' = IF HasBody /\ Body.ok THEN Z_STREAM_END ELSE Z_DATA_ERROR
    /\ inpos' = IF HasBody THEN strm.at ELSE inpos
    /\ ipc' = "inflated"
    /\ UNCHANGED <<dconst, form, sink, check, clen, files, stderr, status,
                   in_eof, out_tot, out_check, zip, ilen, strm, outbuf, opc,
                   olen, work, cthr>>

\* lines 1639-1646
InfInflated ==
    /\ ipc = "inflated"
    /\ IF ret # Z_STREAM_END
       THEN /\ bail("corrupted input -- invalid deflate data: ", InName)
            /\ ipc' = "exit"
            /\ UNCHANGED clen
       ELSE /\ clen' = Body.clen
            /\ ipc' = "trailer"
            /\ UNCHANGED <<files, stderr, status>>
    /\ UNCHANGED <<dconst, form, inpos, sink, check, in_eof, out_tot,
                   out_check, zip, ret, ilen, strm, outbuf, opc, olen, work,
                   cthr>>

\* lines 1648-1698: read and check the trailer
InfTrailer ==
    /\ ipc = "trailer"
    /\ \E wide \in BOOLEAN :
        \E t \in {trailer(At(inpos, in_eof), wide)} :
            /\ inpos' = t.s.pos
            /\ in_eof' = t.s.eof
            /\ zip' = t.zip
            /\ check' = t.check
            /\ ilen' = t.len
            /\ IF t.why # ""
               THEN /\ bail(t.why, InName)
                    /\ ipc' = "exit"
               ELSE /\ ipc' = "next"
                    /\ UNCHANGED <<files, stderr, status>>
    /\ UNCHANGED <<dconst, form, sink, clen, out_tot, out_check, ret, strm,
                   outbuf, opc, olen, work, cthr>>

\* lines 1709-1711: look for another gzip or zlib entry, go round for it,
\* or leave with a warning about what follows
InfNext ==
    /\ ipc = "next"
    /\ IF form < 2
       THEN \E h \in {get_header(At(inpos, in_eof))} :
                /\ ret' = h.ret
                /\ form' = h.form
                /\ inpos' = h.s.pos
                /\ in_eof' = h.s.eof
                /\ zip' = h.zip
                /\ ipc' = IF h.ret = 8 /\ h.form < 2 THEN "init" ELSE "done"
                /\ stderr' = IF ~(h.ret = 8 /\ h.form < 2)
                                /\ h.ret # -1 /\ h.form < 2
                             THEN Append(stderr,
                               [why |-> "OK, has trailing junk which was ignored",
                                what |-> InName])
                             ELSE stderr
       ELSE /\ ipc' = "done"
            /\ UNCHANGED <<ret, form, inpos, in_eof, zip, stderr>>
    /\ UNCHANGED <<dconst, sink, check, clen, files, status, out_tot,
                   out_check, ilen, strm, outbuf, opc, olen, work, cthr>>

\* a byte of a sequence inverted, and the first k items of a sequence
FlipAt(q, k) == [q EXCEPT ![k] = 255 - @]
Take(q, k) == SubSeq(q, 1, k)

\* the trailer that belongs to the deflate stream of l bytes in form f (the
\* zip data descriptor in its original version)
GoodCheck(f, l) == CHECK(f, CHECK0(f), DataOf(l))
GoodTrailer(f, l) ==
    IF f = 0 THEN PUT4L(GoodCheck(f, l)) \o PUT4L(Word(l))
    ELSE IF f = 1 THEN PUT4M(GoodCheck(f, l))
    ELSE IF f = 3
    THEN PUT4L(GoodCheck(f, l))
           \o PUT4L(Word(deflate_count(l, Z_FINISH))) \o PUT4L(Word(l))
    ELSE << >>
Member(f, l) == <<BodyCode(l, TRUE)>> \o GoodTrailer(f, l)

\* a gzip header without optional fields, a zlib header, and a zip local
\* header without name and extra field
GzipHeader == <<31, 139, 8, 0, 0, 0, 0, 0, 0, 3>>
ZlibHeader == <<120, 156>>
ZipLocal == <<80, 75, 3, 4, 20, 0, 0, 0, 8, 0, 0, 0, 0, 0>>
              \o PUT4L({}) \o PUT4L(Word(5)) \o PUT4L({}) \o <<0, 0, 0, 0>>

\* what is tried after a stream whose trailer is right: nothing, another
\* stream, and bytes that are no stream
Following ==
    {<< >>}
    \cup {Take(GzipHeader, k) : k \in 1..Len(GzipHeader)}
    \cup {GzipHeader \o Member(0, 1), ZlibHeader \o Member(1, 1),
          GzipHeader \o <<BodyCode(1, TRUE)>> \o FlipAt(GoodTrailer(0, 1), 1)}
    \cup {<<0, 0>>, <<31, 157>>, <<255>>, <<1, 2, 3>>, <<120>>, <<120, 157>>,
          <<127, 7>>, <<31, 139, 8, 224>>,
          <<31, 139, 8, 8, 0, 0, 0, 0, 0, 3, 65>>,
          <<31, 139, 8, 8, 0, 0, 0, 0, 0, 3, 65, 0>>}
    \cup {Take(ZipLocal, k) : k \in {2, 4, 12, 28, 30}}

\* the zip data descriptors tried: original, with signature, with 64-bit
\* lengths, and with both
Descriptors(l) ==
    LET c == PUT4L(GoodCheck(3, l))
        cl == PUT4L(Word(deflate_count(l, Z_FINISH)))
        ul == PUT4L(Word(l))
        z == <<0, 0, 0, 0>>
    IN  {c \o cl \o ul, PUT4L(ZIPSIG) \o c \o cl \o ul,
         c \o cl \o z \o ul \o z, PUT4L(ZIPSIG) \o c \o cl \o z \o ul \o z}

\* the crc and lengths a zip local header holds, right and wrong
LocalFields(l) ==
    LET good == [crc |-> GoodCheck(2, l),
                 clen |-> Word(deflate_count(l, Z_FINISH)), ulen |-> Word(l)]
    IN  {good, [good EXCEPT !.crc = Xor(@, {0})],
         [good EXCEPT !.clen = Xor(@, {0})], [good EXCEPT !.ulen = Xor(@, {0})]}

NoZip == [crc |-> {}, clen |-> {}, ulen |-> {}]
Case(f, i, z) == [form |-> f, input |-> i, zip |-> z]

\* the compressed inputs tried, each with the form and the zip fields that
\* the header read by process has left
Cases ==
    UNION {
        {Case(f, Member(f, l) \o j, NoZip) : j \in Following}
        \cup {Case(f, <<BodyCode(l, TRUE)>> \o FlipAt(GoodTrailer(f, l), k), NoZip)
                : k \in 1..Len(GoodTrailer(f, l))}
        \cup {Case(f, <<BodyCode(l, TRUE)>> \o Take(GoodTrailer(f, l), k), NoZip)
                : k \in 0..(Len(GoodTrailer(f, l)) - 1)}
        \cup {Case(f, <<BodyCode(l, FALSE)>> \o GoodTrailer(f, l), NoZip),
              Case(f, << >>, NoZip)}
      : f \in {0, 1}, l \in 0..MaxData}
    \cup UNION {
        {Case(2, <<BodyCode(l, TRUE)>> \o j, z)
           : z \in LocalFields(l), j \in {<< >>, <<80, 75, 1, 2>>}}
        \cup {Case(3, <<BodyCode(l, TRUE)>> \o d, NoZip) : d \in Descriptors(l)}
        \cup {Case(3, <<BodyCode(l, TRUE)>> \o FlipAt(GoodTrailer(3, l), k), NoZip)
                : k \in 1..12}
        \cup {Case(3, <<BodyCode(l, TRUE)>> \o Take(GoodTrailer(3, l), k), NoZip)
                : k \in 0..11}
      : l \in 0..MaxData}

\* process has read the header with get_header(1), which returned 8, and has
\* created the output file if it decompresses (decode is 1); infchk starts
DecInit ==
    /\ procs \in {1, 2}
    /\ decode \in {1, 2}
    /\ \E c \in Cases : form = c.form /\ input = c.input /\ zip = c.zip
    /\ dict = FALSE /\ inpos = 0 /\ jobs = << >> /\ thr = << >>
    /\ rpc = "start" /\ n = 0 /\ got = 0
    /\ wpc = "none" /\ wn = 0 /\ wlen = 0 /\ head = 0
    /\ ulen = 0 /\ clen = 0 /\ check = {} /\ sink = << >>
    /\ CombIdle /\ PutIdle /\ SingleIdle /\ OptIdle /\ ProcIdle
    /\ out = (IF decode = 1 THEN OutName ELSE NullName)
    /\ verbosity = 1
    /\ files = (IF decode = 1 THEN {InName, OutName} ELSE {InName})
    /\ stderr = << >> /\ status = << >>
    /\ in_eof = FALSE /\ out_tot = 0 /\ out_check = {}
    /\ ipc = "init" /\ ret = 8 /\ ilen = {}
    /\ strm = [at |-> 0, pos |-> 0, form |-> 0]
    /\ outbuf = [i \in 1..OUTSIZE |-> 0]
    /\ opc = "idle" /\ olen = 0
    /\ work = [check |-> {}, len |-> 0]
    /\ cthr = << >>

DecNext ==
    \/ InfInit \/ InflateOut \/ OutbStart \/ RunCheck \/ OutbWrite
    \/ OutbJoin \/ InflateEnd \/ InfInflated \/ InfTrailer \/ InfNext

DecSpec == DecInit /\ [][DecNext]_vars

(***************************************************************************)
(* Properties of decompression.                                            *)
(***************************************************************************)
\* the stored bytes that follow the deflate stream being decompressed
Stored(a, b) == SubSeq(input, strm.at + a, strm.at + b)
Reverse(q) == [i \in 1..Len(q) |-> q[Len(q) + 1 - i]]
LittleEndian4(w) == [k \in 1..4 |-> LittleEndian(w, k - 1)]

\* C14: when infchk has passed the trailer check of a stream, the trailer
\* matches the decompressed output: for gzip the stored little-endian CRC-32
\* is that of the output and the stored length is its length modulo 2^32,
\* for zlib the stored big-endian Adler-32 is that of the output, and for zip
\* the stored CRC-32 and both stored lengths are those of the entry
C14_TrailerMatches ==
    ipc = "next" =>
        /\ strm.form = 0 =>
            /\ Len(input) >= strm.at + 8
            /\ Stored(1, 4) = LittleEndian4(crc32({}, Body.data))
            /\ Stored(5, 8) = LittleEndian4(Word(Len(Body.data)))
        /\ strm.form = 1 =>
            /\ Len(input) >= strm.at + 4
            /\ Stored(1, 4) = Reverse(LittleEndian4(adler32({0}, Body.data)))
        /\ strm.form >= 2 =>
            /\ zip.crc = crc32({}, Body.data)
            /\ zip.clen = Word(Body.clen)
            /\ zip.ulen = Word(Len(Body.data))

\* the input is one gzip stream that is valid but for its last byte, which
\* is inverted, and it is decompressed to a file
LastByteFlipped ==
    /\ decode = 1 /\ out = OutName
    /\ \E l \in 0..MaxData :
        input = <<BodyCode(l, TRUE)>> \o FlipAt(GoodTrailer(0, l), 8)

\* C15 as stated: a gzip stream with its last byte flipped ends in the
\* diagnostic of a CRC mismatch, a non-zero exit status and no output file
C15_CrcMismatch_AsStated ==
    LastByteFlipped /\ status # << >> =>
        /\ stderr = <<[why |-> "corrupted gzip stream -- crc32 mismatch: ",
                       what |-> InName]>>
        /\ status = <<1>>
        /\ OutName \notin files

\* C15: a gzip stream with its last byte flipped is never accepted: infchk
\* goes on until it exits, and then the diagnostic names a length mismatch
\* (the last byte is the high byte of the stored length), the exit status is
\* 1 and the output file does not exist
C15_LengthMismatch ==
    LastByteFlipped =>
        /\ ipc \notin {"next", "done"}
        /\ status = << >> => ENABLED DecNext
        /\ ipc = "exit" => status # << >>
        /\ status # << >> =>
            /\ stderr = <<[why |-> "corrupted gzip stream -- length mismatch: ",
                           what |-> InName]>>
            /\ status = <<1>>
            /\ OutName \notin files

\* a gzip stream with its last byte flipped has been decompressed into the
\* output file in two chunks, and the process has exited
C15_Witness ==
    /\ LastByteFlipped
    /\ Len(sink) = 2
    /\ status = <<1>>

\* the check value of the first p decompressed bytes as outb computes it
\* without a thread (line 1593), chunk after chunk
RECURSIVE serial_check(_, _)
serial_check(data, p) ==
    IF p = 0 THEN CHECK0(form)
    ELSE LET k == IF p % OUTSIZE = 0 THEN OUTSIZE ELSE p % OUTSIZE
         IN  CHECK(form, serial_check(data, p - k), SubSeq(data, p - k + 1, p))

\* C17: with procs > 1 at most one check thread exists at a time; it is
\* joined before outb returns; the buffer it was given still holds its chunk
\* as long as it has not run; and after every call of outb out_check is the
\* value the path without threads computes over the same chunks, and out_tot
\* is the number of bytes handed to outb
C17_CheckThread ==
    procs > 1 =>
        /\ Cardinality({id \in DOMAIN cthr : cthr[id].pc # "joined"}) <= 1
        /\ opc = "idle" => \A id \in DOMAIN cthr : cthr[id].pc = "joined"
        /\ \A id \in DOMAIN cthr :
               cthr[id].pc = "run" =>
                   Chunk(work.len) =
                       SubSeq(Body.data, strm.pos - work.len + 1, strm.pos)
        /\ opc = "idle" /\ ipc \in {"inflate", "inflated", "trailer"} /\ HasBody =>
            /\ out_check = serial_check(Body.data, strm.pos)
            /\ out_tot = strm.pos

\* with procs > 1 outb has returned for the second chunk of a stream
C17_Witness ==
    /\ procs > 1
    /\ ipc = "inflate" /\ opc = "idle"
    /\ Len(cthr) = 2
    /\ out_tot = OUTSIZE + 1

\* a warning about trailing junk has been written
JunkWarned ==
    \E i \in DOMAIN stderr :
        stderr[i].why = "OK, has trailing junk which was ignored"

\* what follows the trailer of the last stream that was decompressed
AfterLast ==
    SubSeq(input, strm.at + Len(GoodTrailer(strm.form, 0)) + 1, Len(input))

\* C18: when infchk returns after gzip or zlib streams, it has not bailed,
\* and it has written the warning about trailing junk exactly if bytes
\* follow the last stream (they are not the header of a further stream with
\* method 8, or infchk would have gone round for it)
C18_JunkWarning ==
    ipc = "done" /\ strm.form < 2 =>
        /\ status = << >>
        /\ JunkWarned <=> AfterLast # << >>

(***************************************************************************)
(* Compress threads and the units they work on (pigz.c:831-878, 898-926,   *)
(* 950-976).                                                               *)
(***************************************************************************)
\* the compress threads created on unit k and not joined yet
Unjoined(k) == {id \in DOMAIN thr : thr[id].job = k /\ thr[id].pc # "joined"}

\* the compress threads that are running
Executing(k) == {id \in DOMAIN thr : thr[id].job = k /\ thr[id].pc \in {"start", "deflate"}}

\* C26: at every moment each unit has at most one compress thread that was
\* created and is not joined, hence there are at most procs of them, and the
\* read thread is about to create one on a unit only when the thread created
\* on that unit before has been joined.
C26_OnePerSlot ==
    /\ \A k \in 0..(procs - 1) : Cardinality(Unjoined(k)) <= 1
    /\ Cardinality({id \in DOMAIN thr : thr[id].pc # "joined"}) <= procs
    /\ rpc = "spawn" => Unjoined(n) = {}

\* a unit is used again: its first thread is joined and its second is not
C26_Witness ==
    \E id \in DOMAIN thr : /\ id > procs
                            /\ thr[id].pc # "joined"
                            /\ thr[id - procs].job = thr[id].job
                            /\ thr[id - procs].pc = "joined"

\* the number of blocks of the input and the length of block b of them
Blocks == (Len(input) \div size) + 1
BlockLen(b) == IF b < Blocks THEN size ELSE Len(input) % size

\* the blocks the write thread has written
Written == {i \in DOMAIN sink : sink[i].kind = "block"}

\* C28: the read thread creates floor(n / size) + 1 compress threads and the
\* write thread joins and writes as many; every block but the last has size
\* bytes and the last has n mod size; both loops end after the same block.
C28_BlockCount ==
    /\ Len(thr) <= Blocks
    /\ Cardinality(Written) <= Blocks
    /\ \A id \in DOMAIN thr : thr[id].pc # "start" => thr[id].len = BlockLen(id)
    /\ \A i \in Written : Len(sink[i].data) = BlockLen(sink[i].seq + 1)
    /\ rpc = "set_comp" => got = BlockLen(Len(thr))
    /\ rpc \in {"join", "done"} => Len(thr) = Blocks
    /\ wpc \in {"trailer", "done", "joined"} =>
          /\ Cardinality(Written) = Blocks
          /\ \A id \in DOMAIN thr : thr[id].pc = "joined"
          /\ Len(thr) = Blocks
          /\ rpc \in {"join", "done"}
          /\ wn = n

\* an input of two full blocks was compressed as three blocks, the last empty
C28_Witness ==
    /\ rpc = "done"
    /\ Len(input) = 2 * size
    /\ Len(thr) = 3
    /\ thr[3].len = 0
    /\ Cardinality(Written) = 3

\* C29: the write thread joins jobs[n].comp only when that is the handle of
\* the thread the read thread created for the block the write thread writes
\* next, a thread joined before is never joined again, every thread is joined
\* when the write thread ends, and the read thread stores a new handle in
\* jobs[n].comp only when the handle it holds was joined.
C29_JoinAfterCreate ==
    /\ wpc = "join" =>
          /\ jobs[wn].comp \in DOMAIN thr
          /\ jobs[wn].comp = Cardinality(Written) + 1
          /\ thr[jobs[wn].comp].job = wn
          /\ thr[jobs[wn].comp].pc # "joined"
    /\ wpc \in {"done", "joined"} => \A id \in DOMAIN thr : thr[id].pc = "joined"
    /\ rpc = "spawn" => \/ jobs[n].comp = 0
                        \/ thr[jobs[n].comp].pc = "joined"

\* the write thread is about to join the second thread of a unit
C29_Witness ==
    /\ wpc = "join"
    /\ jobs[wn].comp = procs + 1
    /\ thr[jobs[wn].comp].pc = "done"
    /\ thr[1].pc = "joined"

\* C30 as stated: no compress thread of unit k is running while the flag of
\* unit k is IDLE or WRITE.
C30_RunsOnlyWhenComp_AsStated ==
    \A k \in 0..(procs - 1) : Executing(k) # {} => jobs[k].busy.value = COMP

\* C30: a compress thread of unit k is running only while the flag of unit k
\* is COMP, or while it is still IDLE between the pthread_create of line 967
\* and the flag_set of line 970 of the read thread on that unit; it is never
\* running while the flag is WRITE.
C30_RunsOnlyWhenComp ==
    \A k \in 0..(procs - 1) :
        Executing(k) # {} =>
            \/ jobs[k].busy.value = COMP
            \/ jobs[k].busy.value = IDLE /\ rpc = "set_comp" /\ n = k

\* a compress thread has finished its deflate before the flag of its unit
\* was set to COMP
C30_Witness ==
    /\ rpc = "set_comp"
    /\ jobs[n].busy.value = IDLE
    /\ thr[jobs[n].comp].pc = "done"
    /\ jobs[n].out # NoOutput

(***************************************************************************)
(* Several files compressed by one process with the same options: process  *)
(* is called for each (pigz.c:2516-2521) and calls read_thread again       *)
(* (pigz.c:2229-2230); jobs_new finds jobs != NULL and returns (pigz.c:600-*)
(* 601), so the work units are those the file before has left.             *)
(***************************************************************************)
\* read_thread has returned and process is called for a second file: the
\* compress threads of the first were all joined, what was written for it is
\* kept in first, and the output of the second starts empty
NextStream ==
    /\ rpc = "done" /\ first = << >>
    /\ input' \in Inputs
    /\ inpos' = 0
    /\ thr' = << >>
    /\ first' = sink /\ sink' = << >>
    /\ rpc' = "start" /\ wpc' = "none"
    /\ UNCHANGED <<procs, dict, form, jobs, n, got, wn, wlen, head, ulen, clen,
                   check, spc, MAX, cvars, ovars, pvars, hvars, evars, dvars>>

ReuseNext == Next \/ NextStream

\* two files one after the other, gzip format
ReuseInit == Init /\ form = 0
ReuseSpec == ReuseInit /\ [][ReuseNext]_vars

\* the bytes of block b (from 0) of the input
BlockOf(b) == [i \in 1..BlockLen(b + 1) |-> input[b * size + i]]

\* the dictionary that block b of the input is to be compressed with: none
\* for block 0, for an empty block and without dict, else the last DICT bytes
\* of block b - 1
DictOf(b) ==
    IF b = 0 \/ ~dict \/ BlockLen(b + 1) = 0 THEN << >>
    ELSE [i \in 1..DICT |-> input[b * size - DICT + i]]

\* C27: in a stream compressed on the work units an earlier stream has left,
\* block 0 is compressed with no dictionary, and each block is compressed
\* from its own bytes with the dictionary its own stream gives it, so no
\* byte of the earlier stream has a part in the output.
C27_LaterStreamClean ==
    first # << >> =>
        \A i \in Written : /\ sink[i].data = BlockOf(sink[i].seq)
                            /\ sink[i].dictionary = DictOf(sink[i].seq)


(***************************************************************************)
(* main and option (pigz.c:2350-2466, 2513-2531) and what they do to the   *)
(* work units (pigz.c:596-654): the command line is taken one argument at  *)
(* a time, an argument being the sequence of its characters.               *)
(***************************************************************************)
\* the largest number of arguments on the command line
MaxArgs == 4

\* DICT of pigz.c:657 as it is, for the test of line 2445
DICT_BYTES == 32768

\* the arguments tried: -1 -9 -b -p -s -bp -bb -d - and the words f 0 2 31 32,
\* each of which is a file name or the parameter of -b, -p or -s
Args == {<<"-", "1">>, <<"-", "9">>, <<"-", "b">>, <<"-", "p">>, <<"-", "s">>,
         <<"-", "b", "p">>, <<"-", "b", "b">>, <<"-", "d">>, <<"-">>,
         <<"f">>, <<"0">>, <<"2">>, <<"3", "1">>, <<"3", "2">>}

\* the number of blocks of the files tried
FileBlocks == {1, MaxBlocks}

Digits == <<"0", "1", "2", "3", "4", "5", "6", "7", "8", "9">>
IsDigit(c) == \E i \in DOMAIN Digits : Digits[i] = c
DigitVal(c) == (CHOOSE i \in DOMAIN Digits : Digits[i] = c) - 1

\* atol and atoi of stdlib.h on a string without sign or leading space: the
\* value of its leading digits (no string tried has more than two)
RECURSIVE atol_from(_, _)
atol_from(str, acc) ==
    IF str = << >> \/ ~IsDigit(Head(str)) THEN acc
    ELSE atol_from(Tail(str), acc * 10 + DigitVal(Head(str)))
atol(str) == atol_from(str, 0)

\* the globals and locals that option, process and jobs_free work on
OptState ==
    [get |-> get, level |-> level, decode |-> decode, procs |-> procs,
     size |-> blocksize, sufx |-> sufx, jobs |-> pool, freed |-> freed,
     done |-> done, heap |-> heap, ret |-> 0, bail |-> << >>]

\* bail(why, what) called within option: nothing after it is executed
Bailed(g, why, what) == [g EXCEPT !.bail = <<why, what>>]

\* jobs_free (pigz.c:636-654): the loop goes through the units procs - 1 to 0
\* of the array, whatever number of units the array was allocated with
\* the units that the test of line 643 finds with a buffer
WithBuf(g) == {k \in 0..(g.procs - 1) : k \in DOMAIN g.jobs /\ g.jobs[k].buf # 0}

\* what lines 641-653 release: deflateEnd and two calls of free for each
\* unit in units, and free(jobs)
Released(g, units) ==
    [g.heap EXCEPT !.inits = << >>, !.blocks = 0,
                   !.live = @ - (2 * Cardinality(units) + 1),
                   !.strms = @ - Cardinality(units),
                   !.had = {k \in DOMAIN g.jobs : g.jobs[k].buf # 0},
                   !.ended = units]

\* jobs_free without the test of line 643
jobs_free_EveryUnit(g) ==
    IF g.jobs = << >> THEN g
    ELSE [g EXCEPT !.jobs = << >>,
                   !.freed = <<0..(g.procs - 1), DOMAIN g.jobs>>,
                   !.heap = Released(g, 0..(g.procs - 1))]

jobs_free(g) ==
    IF g.jobs = << >> THEN g
    ELSE [g EXCEPT !.jobs = << >>,
                   !.freed = <<0..(g.procs - 1), DOMAIN g.jobs>>,
                   !.heap = Released(g, WithBuf(g))]

\* jobs_new (pigz.c:596-613) on these globals; buf = 0 is buf = NULL, and out
\* and strm of such a unit are not read.  The tests of lines 602-604 fail for
\* no size tried
jobs_new_units(g) ==
    IF g.jobs # << >> THEN g
    ELSE [g EXCEPT !.jobs = [k \in 0..(g.procs - 1) |->
                                [buf |-> 0, out |-> 0, level |-> 0]],
                   !.heap.inits = [k \in 0..(g.procs - 1) |-> 0],
                   !.heap.live = @ + 1]

\* job_init (pigz.c:619-633): the sizes of the two buffers and the level that
\* deflateInit2 is given
job_init_unit(g) ==
    [buf |-> g.size, out |-> g.size + (g.size \div 2048) + 10, level |-> g.level]

\* get & 1 ? "b" : (get & 2 ? "p" : "s") of lines 2358 and 2366
get_name(g) ==
    IF g.get % 2 = 1 THEN "b" ELSE IF (g.get \div 2) % 2 = 1 THEN "p" ELSE "s"

\* get |= bit
get_or(v, bit) == IF (v \div bit) % 2 = 1 THEN v ELSE v + bit

\* one round of the switch of lines 2389-2431 for the options tried
short_option(g, c) ==
    IF IsDigit(c) THEN [jobs_free(g) EXCEPT !.level = DigitVal(c)]
    ELSE IF c = "b" THEN [g EXCEPT !.get = get_or(g.get, 1)]
    ELSE IF c = "p" THEN [g EXCEPT !.get = get_or(g.get, 2)]
    ELSE IF c = "s" THEN [g EXCEPT !.get = get_or(g.get, 4)]
    ELSE IF c = "d" THEN [g EXCEPT !.decode = 1]
    ELSE Bailed(g, "invalid option: -", c)

\* the loop of lines 2388-2432
RECURSIVE short_options(_, _)
short_options(g, str) ==
    IF str = << >> \/ g.bail # << >> THEN g
    ELSE short_options(short_option(g, Head(str)), Tail(str))

\* lines 2437-2462 without the test of lines 2438-2441
option_parameter_NoSeparate(g, arg) ==
    IF g.get = 1
      THEN LET f == [jobs_free(g) EXCEPT !.size = atol(arg) * 1024]
           IN IF f.size < DICT_BYTES
                THEN Bailed(f, "block size too small (must be >= 32K)", "")
                ELSE [f EXCEPT !.get = 0]
    ELSE IF g.get = 2
      THEN LET f == [jobs_free(g) EXCEPT !.procs = atol(arg)]
           IN IF f.procs < 1
                THEN Bailed(f, "need at least one process", "")
                ELSE [f EXCEPT !.get = 0]
    ELSE IF g.get = 4
      THEN [g EXCEPT !.sufx = arg, !.get = 0]
    ELSE [g EXCEPT !.get = 0]

\* lines 2437-2462 with procs = atoi(arg) before jobs_free()
option_parameter_ProcsFirst(g, arg) ==
    IF g.get \notin {1, 2, 4}
      THEN Bailed(g, "you need to separate ",
                  IF g.get = 3 THEN "-b and -p"
                  ELSE IF g.get = 5 THEN "-b and -s" ELSE "-p and -s")
    ELSE IF g.get = 1
      THEN LET f == [jobs_free(g) EXCEPT !.size = atol(arg) * 1024]
           IN IF f.size < DICT_BYTES
                THEN Bailed(f, "block size too small (must be >= 32K)", "")
                ELSE [f EXCEPT !.get = 0]
    ELSE IF g.get = 2
      THEN LET f == jobs_free([g EXCEPT !.procs = atol(arg)])
           IN IF f.procs < 1
                THEN Bailed(f, "need at least one process", "")
                ELSE [f EXCEPT !.get = 0]
    ELSE [g EXCEPT !.sufx = arg, !.get = 0]

\* lines 2437-2462: the parameter of -b, -p or -s
option_parameter(g, arg) ==
    IF g.get \notin {1, 2, 4}
      THEN Bailed(g, "you need to separate ",
                  IF g.get = 3 THEN "-b and -p"
                  ELSE IF g.get = 5 THEN "-b and -s" ELSE "-p and -s")
    ELSE IF g.get = 1
      THEN LET f == [jobs_free(g) EXCEPT !.size = atol(arg) * 1024]
           IN IF f.size < DICT_BYTES
                THEN Bailed(f, "block size too small (must be >= 32K)", "")
                ELSE [f EXCEPT !.get = 0]
    ELSE IF g.get = 2
      THEN LET f == [jobs_free(g) EXCEPT !.procs = atol(arg)]
           IN IF f.procs < 1
                THEN Bailed(f, "need at least one process", "")
                ELSE [f EXCEPT !.get = 0]
    ELSE [g EXCEPT !.sufx = arg, !.get = 0]

\* option(arg) for arg != NULL (pigz.c:2363-2465); ret is what it returns.
\* No argument tried is a long option
option(g, arg) ==
    IF Head(arg) = "-"
      THEN IF g.get # 0
             THEN Bailed(g, "require parameter after -", get_name(g))
           ELSE IF Len(arg) = 1 THEN [g EXCEPT !.ret = 1]
           ELSE short_options(g, Tail(arg))
    ELSE IF g.get # 0 THEN option_parameter(g, arg)
    ELSE [g EXCEPT !.ret = 1]

\* option(NULL) (pigz.c:2355-2360)
option_null(g) ==
    IF g.get # 0 THEN Bailed(g, "missing option argument for -", get_name(g))
    ELSE g

\* process (pigz.c:2222-2233) on a file of b blocks, as far as the work units
\* go: infchk uses none; read_thread calls jobs_new and then job_init for
\* each unit it comes to with buf == NULL (lines 943, 953-954), and so does
\* single_gzip for unit 0 (lines 1001-1003)
process(g, b) ==
    IF g.decode # 0 THEN g
    ELSE LET u == jobs_new_units(g)
             used == IF u.procs > 1 THEN {i % u.procs : i \in 0..(b - 1)} ELSE {0}
             inited == {k \in used : u.jobs[k].buf = 0}
         IN [u EXCEPT !.jobs = [k \in DOMAIN u.jobs |->
                                   IF k \in inited
                                     THEN job_init_unit(u) ELSE u.jobs[k]],
                      !.heap.inits = [k \in DOMAIN @ |->
                                         IF k \in inited THEN @[k] + 1 ELSE @[k]],
                      !.heap.blocks = IF b > @ THEN b ELSE @,
                      !.heap.live = @ + 2 * Cardinality(inited),
                      !.heap.strms = @ + Cardinality(inited)]

\* the body of the loop of lines 2515-2523 for one argument
main_argument(g, arg, b) ==
    LET o == option(g, arg)
    IN IF o.bail = << >> /\ o.ret = 1
         THEN [process(o, b) EXCEPT !.done = o.done + 1]
         ELSE o

\* lines 2524-2531, after the last argument
main_end(g, b) ==
    LET o == option_null(g)
    IN IF o.bail # << >> THEN o
       ELSE jobs_free(IF o.done = 0 THEN process(o, b) ELSE o)

\* the globals take the values of r; bail if r says so
OptAssign(r) ==
    /\ get' = r.get /\ level' = r.level /\ decode' = r.decode
    /\ procs' = r.procs /\ blocksize' = r.size /\ sufx' = r.sufx
    /\ pool' = r.jobs /\ freed' = r.freed /\ done' = r.done
    /\ heap' = r.heap
    /\ UNCHANGED <<dict, form, input, inpos, jobs, thr, rvars, wvars, cvars,
                   trail, wire, ppc, name, mtime, svars, pvars, out, verbosity,
                   in_eof, out_tot, out_check, zip, ipc, ret, ilen, strm,
                   outbuf, opc, olen, work, cthr>>

\* main looks at the next argument
MainArgument ==
    /\ status = << >> /\ Len(argv) < MaxArgs
    /\ \E arg \in Args, b \in FileBlocks :
         \E r \in {main_argument(OptState, arg, b)} :
            /\ OptAssign(r)
            /\ argv' = Append(argv, arg)
            /\ IF r.bail # << >> THEN bail(r.bail[1], r.bail[2])
               ELSE UNCHANGED <<files, stderr, status>>

\* there is no further argument: main ends
MainEnd ==
    /\ status = << >>
    /\ \E b \in FileBlocks :
         \E r \in {main_end(OptState, b)} :
            /\ OptAssign(r)
            /\ UNCHANGED argv
            /\ IF r.bail # << >> THEN bail(r.bail[1], r.bail[2])
               ELSE status' = <<0>> /\ UNCHANGED <<files, stderr>>

OptNext == MainArgument \/ MainEnd

\* main after defaults(), with no output file open
OptInit ==
    /\ procs = 32 /\ dict = TRUE /\ form = 0 /\ input = << >> /\ inpos = 0
    /\ jobs = << >> /\ thr = << >>
    /\ rpc = "none" /\ n = 0 /\ got = 0
    /\ wpc = "none" /\ wn = 0 /\ wlen = 0 /\ head = 0
    /\ ulen = 0 /\ clen = 0 /\ check = {} /\ sink = << >>
    /\ CombIdle /\ PutIdle /\ SingleIdle /\ DecIdle /\ OptIdle /\ ProcIdle
    /\ out = NullName /\ verbosity = 1 /\ files = {InName}
    /\ stderr = << >> /\ status = << >>

OptSpec == OptInit /\ [][OptNext]_vars


\* the work units are those of the options in force: procs of them, and
\* each one that was initialized has buffers for size and a deflate state of
\* level; and the loop of jobs_free went through the units of the array
PoolMatches ==
    /\ pool # << >> =>
          /\ DOMAIN pool = 0..(procs - 1)
          /\ \A k \in DOMAIN pool :
                pool[k].buf # 0 =>
                   /\ pool[k].buf = blocksize
                   /\ pool[k].out = blocksize + (blocksize \div 2048) + 10
                   /\ pool[k].level = level
    /\ freed[1] = freed[2]

\* a step that changes level, size or procs leaves no work units, having
\* freed those there were by their old number; a step that processes a file
\* and goes on keeps the units it finds, as they are where initialized
PoolStep ==
    /\ (level' # level \/ blocksize' # blocksize \/ procs' # procs) =>
          /\ pool' = << >>
          /\ pool # << >> => freed' = <<DOMAIN pool, DOMAIN pool>>
    /\ (done' = done + 1 /\ status' = << >> /\ pool # << >>) =>
          /\ DOMAIN pool' = DOMAIN pool
          /\ \A k \in DOMAIN pool : pool[k].buf # 0 => pool'[k] = pool[k]
          /\ freed' = freed

Awaited(arg) == {arg[i] : i \in 2..Len(arg)} \cap {"b", "p", "s"}

\* argument i of args is a file name: it is - or does not start with -, and
\* the argument before it awaits no parameter
IsFileName(args, i) ==
    /\ args[i] = <<"-">> \/ Head(args[i]) # "-"
    /\ i = 1 \/ Head(args[i - 1]) # "-" \/ Awaited(args[i - 1]) = {}

\* the last argument is a word that follows an argument of short options
LastIsParameter ==
    /\ Len(argv) >= 2
    /\ Head(argv[Len(argv)]) # "-"
    /\ Head(argv[Len(argv) - 1]) = "-"
    /\ Awaited(argv[Len(argv) - 1]) # {}

\* that word as block size or as number of units is too small
TooSmall ==
    LET a == argv[Len(argv) - 1]
        w == argv[Len(argv)]
    IN \/ Awaited(a) = {"b"} /\ atol(w) * 1024 < 32768
       \/ Awaited(a) = {"p"} /\ atol(w) < 1

\* C25 as stated: while the program runs the block size is at least 32768 and
\* procs at least 1, and a parameter that is too small, or that follows two
\* grouped options of -b, -p, -s, has ended the program in bail with no file
\* processed.
C25_BadOptionsBail_AsStated ==
    /\ status # <<1>> => blocksize >= 32768 /\ procs >= 1
    /\ (LastIsParameter /\ (TooSmall \/ Cardinality(Awaited(argv[Len(argv) - 1])) > 1)) =>
          status = <<1>> /\ done = 0

\* C25: while the program runs the block size is at least 32768 and procs at
\* least 1, and a parameter that is too small, or that follows two different
\* grouped options of -b, -p, -s, has ended the program in bail; the files
\* named before it, and only they, have been processed.
C25_BadOptionsBail ==
    /\ status # <<1>> => blocksize >= 32768 /\ procs >= 1
    /\ (LastIsParameter /\ (TooSmall \/ Cardinality(Awaited(argv[Len(argv) - 1])) >= 2)) =>
          /\ status = <<1>>
          /\ done = Cardinality({i \in 1..(Len(argv) - 2) : IsFileName(argv, i)})

\* a file was compressed, then -b 31 ended the program
C25_Witness ==
    /\ argv = <<<<"f">>, <<"-", "b">>, <<"3", "1">>>>
    /\ status = <<1>> /\ done = 1 /\ blocksize = 31744


(***************************************************************************)
(* The flags as the read thread and the write thread meet on them          *)
(* (pigz.c:507-558, 901-918, 959-970).                                     *)
(***************************************************************************)
\* the read thread is past its two flag_wait_not (lines 959-960) and at the
\* readn of line 961 into the buffer of unit n while the flag of that unit is
\* WRITE, the write thread being between its flag_set of line 905 and that of
\* line 918 on the same unit
ReadsWhileWritten ==
    /\ rpc = "read"
    /\ jobs[n].busy.value = WRITE
    /\ wn = n /\ wpc \in {"write", "set_idle"}

C32_AtMostAllButOne ==
    Cardinality({id \in DOMAIN thr : thr[id].pc # "joined"}) <= procs - 1

\* with three units two compress threads are running at once
C32_Witness ==
    /\ procs = 3
    /\ Cardinality({id \in DOMAIN thr : thr[id].pc \in {"start", "deflate"}}) = 2

\* the threads that wait on flags and the flag each can be blocked on
Waiters == {"read", "write"}

\* what thread t, blocked on the flag of unit k, waits for has not come
StillWaiting(t, k) ==
    IF t = "read"
      THEN /\ jobs[k].busy.value = COMP
           /\ \/ rpc = "wait_self" /\ k = n
              \/ rpc = "wait_next" /\ k = NEXT(n)
      ELSE /\ jobs[k].busy.value # COMP
           /\ wpc = "wait_comp" /\ k = wn

\* C33: a flag has at most one thread blocked on it, a thread that is at a
\* flag_set is not blocked on any flag, and a thread is blocked on a flag only
\* while the value it waits for is not there: none is left blocked after the
\* flag_set that brings that value, with spurious wakeups or without.
C33_NoLostWakeup ==
    /\ \A k \in DOMAIN jobs :
          /\ Cardinality(jobs[k].busy.cond) <= 1
          /\ jobs[k].busy.cond \subseteq Waiters
          /\ \A t \in jobs[k].busy.cond : StillWaiting(t, k)
    /\ rpc = "set_comp" => ~Blocked("read")
    /\ wpc \in {"set_write", "set_idle"} => ~Blocked("write")

\* the write thread is blocked on the flag of a unit that the read thread is
\* about to set to COMP
C33_Witness ==
    /\ rpc = "set_comp"
    /\ wpc = "wait_comp" /\ wn = n
    /\ jobs[n].busy.cond = {"write"}



(***************************************************************************)
(* single_gzip alone (pigz.c:988-1048), with a block size at or above MAX  *)
(***************************************************************************)

SerialNext == Single \/ SingleMax

\* one stream compressed with procs = 1; its block size is MAX or, as
\* -b with more than 2 GiB makes it where size_t is wider than unsigned,
\* above MAX
SerialInit ==
    /\ procs = 1
    /\ dict \in BOOLEAN /\ form \in {0, 1}
    /\ input \in Inputs
    /\ inpos = 0 /\ jobs = << >> /\ thr = << >>
    /\ rpc = "none" /\ n = 0 /\ got = 0
    /\ wpc = "none" /\ wn = 0 /\ wlen = 0 /\ head = 0
    /\ ulen = 0 /\ clen = 0 /\ check = {}
    /\ sink = << >>
    /\ spc = "header" /\ first = << >> /\ MAX \in {1, size}
    /\ CombIdle /\ PutIdle /\ ExitIdle /\ DecIdle /\ OptIdle /\ ProcIdle

SerialSpec == SerialInit /\ [][SerialNext]_vars

\* the calls of deflate so far, in order
Deflated == SelectSeq(sink, LAMBDA r : r.kind = "block")

\* the calls of deflate that took the bytes of one whole read
Took(len) == {i \in DOMAIN Deflated : Len(Deflated[i].data) = len}

Finishes == {i \in DOMAIN Deflated : Deflated[i].flush = Z_FINISH}

\* the bytes given to deflate so far, in order
RECURSIVE Fed(_)
Fed(k) == IF k = 0 THEN << >> ELSE Fed(k - 1) \o Deflated[k].data

\* C34 as stated: with the dict flag off, every block whose read returned
\* exactly size bytes is terminated with finish.
C34_MidStreamFinish_AsStated ==
    (~dict /\ size <= MAX) =>
        \A i \in DOMAIN Deflated :
            Len(Deflated[i].data) = size => Deflated[i].flush = Z_FINISH

\* C34: in single_gzip with the dict flag off and size not above MAX, every
\* block whose read returned exactly size bytes is deflated with full flush,
\* and finish is used on the block whose read returned fewer than size
\* bytes and on no other.
C34_MidStreamFullFlush ==
    (~dict /\ size <= MAX) =>
        \A i \in DOMAIN Deflated :
            Deflated[i].flush = (IF Len(Deflated[i].data) = size
                                   THEN Z_FULL_FLUSH ELSE Z_FINISH)

C34_Witness ==
    /\ ~dict /\ size <= MAX /\ spc = "done"
    /\ Cardinality(Took(size)) >= 2
    /\ \A i \in Took(size) : Deflated[i].flush = Z_FULL_FLUSH
    /\ Cardinality(Finishes) = 1

\* C35: in single_gzip with the dict flag on and size not above MAX, every
\* block whose read returned exactly size bytes is deflated with no flush;
\* finish is issued once per stream, on the block whose read returned fewer
\* than size bytes; the encoder is reset before the first block and not
\* between blocks, so that it has taken all the input read so far.
C35_OneEncoderOneFinish ==
    (dict /\ size <= MAX) =>
        /\ \A i \in DOMAIN Deflated :
              Deflated[i].flush = (IF Len(Deflated[i].data) = size
                                     THEN Z_NO_FLUSH ELSE Z_FINISH)
        /\ Cardinality(Finishes) <= 1
        /\ spc \in {"trailer", "done"} =>
              Finishes = {Len(Deflated)} /\ got < size
        /\ spc \in {"read", "trailer", "done"} =>
              jobs[0].strm.total_in = inpos
        /\ spc = "deflate" => jobs[0].strm.total_in = inpos - got

C35_Witness ==
    /\ dict /\ size <= MAX /\ spc = "done"
    /\ Cardinality(Took(size)) >= 2
    /\ \A i \in Took(size) : Deflated[i].flush = Z_NO_FLUSH
    /\ Finishes = {Len(Deflated)}
    /\ jobs[0].strm.total_in = Len(input)

\* C36: for every block size, also one above MAX, single_gzip reads until a
\* read returns fewer than size bytes, finishes the encoder on that last
\* block only, feeds every input byte to deflate and to the check once, and
\* writes a trailer with the length of the input.
C36_WholeInput ==
    /\ \A i \in Finishes : spc = "deflate" \/ i = Len(Deflated)
    /\ spc \in {"trailer", "done"} =>
          /\ inpos = Len(input)
          /\ Fed(Len(Deflated)) = input
          /\ check = CHECK(form, CHECK0(form), input)
          /\ ulen = Len(input)
    /\ spc = "done" => sink[Len(sink)].ulen = Len(input)

\* the stream is complete and the input has bytes that were never read
C36_Witness ==
    /\ spc = "done" /\ size > MAX
    /\ inpos = size /\ inpos < Len(input)
    /\ Finishes = {Len(Deflated)}


(***************************************************************************)
(* What the work units hold between jobs_new and jobs_free                 *)
(***************************************************************************)

Initialized == {k \in DOMAIN pool : pool[k].buf # 0}

\* C37: while the array of work units exists, job_init has run at most once
\* on each unit and exactly on the units that have buffers, which are among
\* the first units as far as the longest stream had blocks; what is
\* allocated is the array, two buffers and an encoder for each of them.
\* Once jobs_free has run, the pointer is NULL, the units whose encoder it
\* ended and whose buffers it freed are those that were initialized, and
\* nothing is left allocated; jobs_free on no array changes nothing.
C37_InitOnceFreeThose ==
    /\ pool # << >> =>
          /\ DOMAIN heap.inits = DOMAIN pool
          /\ \A k \in DOMAIN pool :
                /\ heap.inits[k] <= 1
                /\ heap.inits[k] = 1 <=> pool[k].buf # 0
          /\ Initialized \subseteq 0..(heap.blocks - 1)
          /\ heap.live = 1 + 2 * Cardinality(Initialized)
          /\ heap.strms = Cardinality(Initialized)
    /\ pool = << >> =>
          /\ heap.ended = heap.had
          /\ heap.live = 0 /\ heap.strms = 0
          /\ heap.blocks = 0

\* jobs_free has released four of 32 units, those a file of four blocks
\* used, after a second file went through the same units
C37_Witness ==
    /\ pool = << >> /\ procs = 32 /\ done = 2
    /\ heap.ended = 0..(MaxBlocks - 1)
    /\ status # << >>


(***************************************************************************)
(* process (pigz.c:1959-2254) on one argument, with bail and cutshort      *)
(*                                                                         *)
(* The stream itself (infchk, unlzw, read_thread, single_gzip) is one      *)
(* step that either completes or ends in bail; the steps around it are     *)
(* the statements of process, because the signal handler reads the global  *)
(* out between any two of them.  InName is the name in and OutName the     *)
(* name that process builds for the output.                                *)
(***************************************************************************)

\* everything that process itself does not touch
around == <<form, pipeline, cvars, hvars, svars, dvars, ovars>>

\* what the tests of lines 1985-2094 turn away: no such file, not a regular
\* file, or a name with the suffix when it must have none and without it
\* when it must have one
Skipped ==
    \/ st \in {"missing", "special"}
    \/ st = "suffixed" /\ decode = 0 /\ ~list
    \/ st = "unsuffixed" /\ (decode # 0 \/ list)

\* bail called from process or from below it
ProcBail(why, what) ==
    /\ bail(why, what)
    /\ prc' = "bailed"

\* lines 1966-2105: stdin, or the tests of the name and open(in)
ProcOpenIn ==
    /\ prc = "start"
    /\ IF path = NullName
         THEN /\ ind' = 0 /\ prc' = "header"
              /\ UNCHANGED <<files, stderr, status>>
       ELSE IF Skipped
         THEN /\ prc' = "skipped"
              /\ UNCHANGED <<ind, files, stderr, status>>
       ELSE \/ /\ ind' = 3 /\ prc' = "header"
               /\ UNCHANGED <<files, stderr, status>>
            \/ /\ ProcBail("read error on ", InName)
               /\ UNCHANGED ind
    /\ UNCHANGED <<around, out, verbosity, path, st, keep, pipeout, list,
                   outd, outp, fin, closed>>

\* lines 2107-2151: get_header finds no stream, or the file is tested or
\* listed only, and process returns; or process goes on
ProcHeader ==
    /\ prc = "header"
    /\ \/ decode # 0 /\ prc' = "skipped"
       \/ (decode = 2 \/ list) /\ prc' = "tested"
       \/ decode # 2 /\ ~list /\ prc' = "malloc"
    /\ UNCHANGED <<around, evars, path, st, keep, pipeout, list, ind, outd,
                   outp, fin, closed>>

\* lines 2156-2158 and 2176-2178: out = malloc(...)
ProcMalloc ==
    /\ prc = "malloc"
    /\ \/ /\ outp' = "raw" /\ prc' = "name"
          /\ UNCHANGED <<files, stderr, status>>
       \/ /\ ProcBail("not enough memory", "")
          /\ UNCHANGED outp
    /\ UNCHANGED <<around, out, verbosity, path, st, keep, pipeout, list,
                   ind, outd, fin, closed>>

\* lines 2159-2160: strcpy(out, "<stdout>") and outd = 1; or line 2179:
\* memcpy(out, to, len), which leaves the bytes without their end
ProcName ==
    /\ prc = "name"
    /\ IF path = NullName \/ pipeout
         THEN out' = "<stdout>" /\ outp' = "name" /\ outd' = 1 /\ prc' = "tty"
         ELSE outp' = "prefix" /\ prc' = "suffix" /\ UNCHANGED <<out, outd>>
    /\ UNCHANGED <<around, verbosity, files, stderr, status, path, st, keep,
                   pipeout, list, ind, fin, closed>>

\* lines 2161-2163: compressed data is not written to a terminal
ProcTty ==
    /\ prc = "tty"
    /\ \/ prc' = "run" /\ UNCHANGED <<files, stderr, status>>
       \/ /\ decode = 0
          /\ ProcBail("trying to write compressed data to a terminal",
                      " (use -f to force)")
    /\ UNCHANGED <<around, out, verbosity, path, st, keep, pipeout, list,
                   ind, outd, outp, fin, closed>>

\* line 2180: strcpy(out + len, decode ? "" : sufx)
ProcSuffix ==
    /\ prc = "suffix"
    /\ out' = OutName /\ outp' = "name" /\ prc' = "open"
    /\ UNCHANGED <<around, verbosity, files, stderr, status, path, st, keep,
                   pipeout, list, ind, outd, fin, closed>>

\* lines 2181-2214: open(out) creates or truncates the file; or the file
\* exists and is left alone; or open fails otherwise
ProcOpenOut ==
    /\ prc = "open"
    /\ \/ /\ outd' = 4 /\ files' = files \cup {out} /\ prc' = "run"
          /\ UNCHANGED <<stderr, status>>
       \/ /\ out \in files
          /\ prc' = "skip_free"
          /\ UNCHANGED <<outd, files, stderr, status>>
       \/ /\ ProcBail("write error on ", out)
          /\ UNCHANGED outd
    /\ UNCHANGED <<around, out, verbosity, path, st, keep, pipeout, list,
                   ind, outp, fin, closed>>

\* lines 2222-2233: the stream, ending with its trailer written or with the
\* input verified, or in bail
ProcRun ==
    /\ prc = "run"
    /\ \/ /\ fin' = TRUE /\ prc' = "close_in"
          /\ UNCHANGED <<files, stderr, status>>
       \/ /\ \E w \in {<<"read error on ", InName>>, <<"write error on ", out>>} :
                ProcBail(w[1], w[2])
          /\ UNCHANGED fin
    /\ UNCHANGED <<around, out, verbosity, path, st, keep, pipeout, list,
                   ind, outd, outp, closed>>

\* lines 2240-2241: close(ind) unless it is stdin
ProcCloseIn ==
    /\ prc = "close_in"
    /\ prc' = "close_out"
    /\ UNCHANGED <<around, evars, path, st, keep, pipeout, list, ind, outd,
                   outp, fin, closed>>

\* lines 2242-2245 with the value of close(outd) ignored
ProcCloseOut_Unchecked ==
    /\ prc = "close_out"
    /\ IF outd = 1
         THEN prc' = "free" /\ UNCHANGED closed
         ELSE /\ closed' \in BOOLEAN
              /\ prc' = IF ind # 0 THEN "copymeta" ELSE "touch"
    /\ UNCHANGED <<around, evars, path, st, keep, pipeout, list, ind, outd,
                   outp, fin>>

\* lines 2242-2245: unless the output is stdout, close(outd), and bail if
\* that fails
ProcCloseOut ==
    /\ prc = "close_out"
    /\ IF outd = 1
         THEN /\ prc' = "free"
              /\ UNCHANGED <<closed, files, stderr, status>>
         ELSE \/ /\ closed' = TRUE
                 /\ prc' = IF ind # 0 THEN "copymeta" ELSE "touch"
                 /\ UNCHANGED <<files, stderr, status>>
              \/ /\ ProcBail("write error on ", out)
                 /\ UNCHANGED closed
    /\ UNCHANGED <<around, out, verbosity, path, st, keep, pipeout, list,
                   ind, outd, outp, fin>>

\* line 2246: copymeta(in, out)
ProcCopymeta ==
    /\ prc = "copymeta"
    /\ prc' = "unlink"
    /\ UNCHANGED <<around, evars, path, st, keep, pipeout, list, ind, outd,
                   outp, fin, closed>>

\* lines 2247-2248: if (!keep) unlink(in)
ProcUnlink ==
    /\ prc = "unlink"
    /\ files' = IF ~keep THEN files \ {InName} ELSE files
    /\ prc' = "touch"
    /\ UNCHANGED <<around, out, verbosity, stderr, status, path, st, keep,
                   pipeout, list, ind, outd, outp, fin, closed>>

\* lines 2250-2251: touch(out, stamp) changes no name
ProcTouch ==
    /\ prc = "touch"
    /\ prc' = "free"
    /\ UNCHANGED <<around, evars, path, st, keep, pipeout, list, ind, outd,
                   outp, fin, closed>>

\* RELEASE(out) (pigz.c:190-196) at line 2205 or 2253, first half: free(out)
ProcFree ==
    /\ prc \in {"free", "skip_free"}
    /\ outp' = "freed"
    /\ prc' = IF prc = "free" THEN "null" ELSE "skip_null"
    /\ UNCHANGED <<around, evars, path, st, keep, pipeout, list, ind, outd,
                   fin, closed>>

\* RELEASE(out), second half: out = NULL; process returns
ProcNull ==
    /\ prc \in {"null", "skip_null"}
    /\ outp' = "null" /\ out' = NullName
    /\ prc' = IF prc = "null" THEN "returned" ELSE "skipped"
    /\ UNCHANGED <<around, verbosity, files, stderr, status, path, st, keep,
                   pipeout, list, ind, outd, fin, closed>>

\* main returns 0 (pigz.c:2527-2535)
MainReturn ==
    /\ prc \in {"returned", "skipped", "tested"}
    /\ status = << >>
    /\ status' = <<0>>
    /\ UNCHANGED <<around, out, verbosity, files, stderr, pvars>>

\* the names that unlink may be given through a pointer to bytes that are
\* not, or no longer, a string process has finished
Unfinished == {NullName, InName, OutName}

\* cutshort (pigz.c:459-468), the handler of SIGINT that main installs first
\* (line 2478): unlink(out) unless out is NULL, and _exit(1)
cutshort ==
    /\ \E target \in (IF outp = "null" THEN {NullName}
                      ELSE IF outp = "name" THEN {out} ELSE Unfinished) :
          files' = files \ {target}
    /\ status' = <<1>>

\* SIGINT arrives between two steps of the program
Cutshort ==
    /\ status = << >>
    /\ prc # "none"
    /\ cutshort
    /\ prc' = "killed"
    /\ UNCHANGED <<around, out, verbosity, stderr, path, st, keep, pipeout,
                   list, ind, outd, outp, fin, closed>>

ProcNext ==
    \/ ProcOpenIn \/ ProcHeader \/ ProcMalloc \/ ProcName \/ ProcTty
    \/ ProcSuffix \/ ProcOpenOut \/ ProcRun \/ ProcCloseIn \/ ProcCloseOut
    \/ ProcCopymeta \/ ProcUnlink \/ ProcTouch \/ ProcFree \/ ProcNull
    \/ MainReturn

\* main calls process once, on stdin or on a name, in any mode; a file of
\* the name that process will build may exist already
ProcInit ==
    /\ PipelineIdle /\ form = 0
    /\ CombIdle /\ PutIdle /\ SingleIdle /\ OptIdle
    /\ decode \in {0, 1, 2} /\ in_eof = FALSE /\ out_tot = 0 /\ out_check = {}
    /\ zip = [crc |-> {}, clen |-> {}, ulen |-> {}]
    /\ ipc = "none" /\ ret = 0 /\ ilen = {}
    /\ strm = [at |-> 0, pos |-> 0, form |-> 0]
    /\ outbuf = [i \in 1..OUTSIZE |-> 0]
    /\ opc = "idle" /\ olen = 0
    /\ work = [check |-> {}, len |-> 0]
    /\ cthr = << >>
    /\ prc = "start"
    /\ path \in {NullName, InName}
    /\ st \in {"missing", "special", "suffixed", "unsuffixed"}
    /\ keep \in BOOLEAN /\ pipeout \in BOOLEAN /\ list \in BOOLEAN
    /\ ind = -1 /\ outd = -1 /\ outp = "null"
    /\ fin = FALSE /\ closed = FALSE
    /\ out = NullName /\ verbosity = 1
    /\ \E before \in {{}, {OutName}} :
          files = (IF st = "missing" THEN {} ELSE {InName}) \cup before
    /\ stderr = << >> /\ status = << >>

ProcSpec == ProcInit /\ [][ProcNext]_vars

SigNext == ProcNext \/ Cutshort

SigSpec == ProcInit /\ [][SigNext]_vars

\* the input file was there and is gone
Unlinked == st # "missing" /\ InName \notin files

\* C38: when the input file has been unlinked, process was given its name,
\* let it through, has seen the stream complete and close(outd) return 0 on
\* an output that is not stdout, keep is not set, and process is past its
\* unlink and on its way to return: it was not skipped and did not bail.
C38_UnlinkAfterAll ==
    Unlinked =>
        /\ fin /\ closed
        /\ ~keep
        /\ outd # 1 /\ ~pipeout /\ path # NullName
        /\ ~Skipped
        /\ prc \in {"touch", "free", "null", "returned"}

C38_Witness ==
    /\ Unlinked /\ prc = "returned" /\ status = <<0>>
    /\ OutName \in files /\ out = NullName

\* the output file is there, complete and closed
Complete == OutName \in files /\ fin /\ closed

\* C39: with SIGINT arriving at any point, once the input file has been
\* unlinked no step of the program, the signal handler and bail included,
\* removes the complete output file, so that one of the two files is left.
C39_OutputKept == [][(Unlinked /\ Complete) => OutName \in files']_vars

\* the handler has removed the complete output after process had unlinked
\* the input
C39_Witness ==
    /\ prc = "killed" /\ fin /\ closed /\ ~keep
    /\ st # "missing" /\ InName \notin files /\ OutName \notin files

=============================================================================
